---------------------------- MODULE Spec2Model ----------------------------
(***************************************************************************)
(* A model of Fossilize's StateRecorder / StateReplayer (src/fossilize.cpp).*)
(*                                                                         *)
(* Representation of C++ values:                                           *)
(*  - a struct is a record with the field names of the Vulkan struct;      *)
(*  - a pointer that the code tests for null is a sequence of length 0     *)
(*    (NULL) or 1 (the pointee); an array is the sequence of its elements; *)
(*  - a 32-bit word is a small integer (U32/S32 give the wrap-around of    *)
(*    the unsigned/signed casts at a reduced width of 16 bits, TLC's       *)
(*    integers being 32 bits wide);                                        *)
(*  - a 64-bit value (a Vulkan handle or a Hash, the code casts the one to *)
(*    the other with api_object_cast) is a sequence of integers: <<>> is   *)
(*    0 / VK_NULL_HANDLE, Handle(n) is the runtime handle n, and a Hash is *)
(*    the sequence of words the Hasher was fed: FNV-1a folds that          *)
(*    sequence, so equal feeds give equal hashes, and different feeds      *)
(*    different hashes up to a 64-bit collision.                           *)
(***************************************************************************)
EXTENDS Integers, Sequences, FiniteSets, TLC

NULL == <<>>
VK_NULL_HANDLE == <<>>
Handle(n) == <<0 - n>>

\* uint32_t(value) and int32_t(value), at the model's word width.
U32(value) == value % 65536
S32(value) == IF value >= 32768 THEN value - 65536 ELSE value

RECURSIVE FlattenFrom(_, _)
FlattenFrom(ss, i) == IF i > Len(ss) THEN <<>> ELSE ss[i] \o FlattenFrom(ss, i + 1)
Flatten(ss) == FlattenFrom(ss, 1)

Range(s) == { s[i] : i \in DOMAIN s }

\* body(value), the value computed once.
Bind(value, body(_)) == CHOOSE result \in { body(x) : x \in {value} } : TRUE

\* ----- Vulkan enumerants the code names -----
VK_STRUCTURE_TYPE_SHADER_MODULE_CREATE_INFO == 16
VK_STRUCTURE_TYPE_GRAPHICS_PIPELINE_CREATE_INFO == 28
VK_STRUCTURE_TYPE_COMPUTE_PIPELINE_CREATE_INFO == 29
VK_STRUCTURE_TYPE_PIPELINE_LAYOUT_CREATE_INFO == 30
VK_STRUCTURE_TYPE_SAMPLER_CREATE_INFO == 31
VK_STRUCTURE_TYPE_DESCRIPTOR_SET_LAYOUT_CREATE_INFO == 32
VK_STRUCTURE_TYPE_RENDER_PASS_CREATE_INFO == 38

VK_DESCRIPTOR_TYPE_SAMPLER == 0
VK_DESCRIPTOR_TYPE_COMBINED_IMAGE_SAMPLER == 1
VK_DESCRIPTOR_TYPE_UNIFORM_BUFFER == 6

VK_DYNAMIC_STATE_VIEWPORT == 0
VK_DYNAMIC_STATE_SCISSOR == 1
VK_DYNAMIC_STATE_LINE_WIDTH == 2
VK_DYNAMIC_STATE_DEPTH_BIAS == 3
VK_DYNAMIC_STATE_BLEND_CONSTANTS == 4
VK_DYNAMIC_STATE_DEPTH_BOUNDS == 5
VK_DYNAMIC_STATE_STENCIL_COMPARE_MASK == 6
VK_DYNAMIC_STATE_STENCIL_WRITE_MASK == 7
VK_DYNAMIC_STATE_STENCIL_REFERENCE == 8

VK_BLEND_FACTOR_CONSTANT_COLOR == 10
VK_BLEND_FACTOR_CONSTANT_ALPHA == 12

FOSSILIZE_FORMAT_VERSION == 1

(***************************************************************************)
(* class Hasher.  Each feed is the list of words it folds into h; a hash   *)
(* function is the concatenation of its feeds in program order.            *)
(***************************************************************************)
Hasher_u32(value) == <<value>>
Hasher_s32(value) == Hasher_u32(U32(value))
\* f32: the bit pattern of the float; floats are modelled by their patterns.
Hasher_f32(value) == Hasher_u32(value)
\* u64 of a size: the low word, then the high word.
Hasher_u64(value) == <<value % 65536, value \div 65536>>
\* u64 of a Hash: its two halves; the Hash being a feed sequence, the halves
\* are that sequence between two marks.
Hasher_hash(value) == <<-1>> \o value \o <<-2>>
Hasher_string(str) == <<255>> \o str
\* data<T>(data, size): size / sizeof(T) elements.
Hasher_data(data, size, elemsize) == SubSeq(data, 1, size \div elemsize)

\* FOSSILIZE_THROW inside a hash function: the feed carries the mark -9 and
\* the caller sees the exception (Throws).
Exception == <<-9>>
Throws(h) == \E i \in DOMAIN h : h[i] = -9

(***************************************************************************)
(* StateRecorder::get_hash_for_<kind>: the handle->hash tables of          *)
(* StateRecorder::Impl are the fields <kind>_to_index of the record impl.  *)
(***************************************************************************)
\* A variant of Lookup that gives the handle for its hash: C8 fails with it.
Lookup_handle(table, handle) == handle

Lookup(table, handle) ==
    IF handle \in DOMAIN table THEN table[handle] ELSE Exception

get_hash_for_compute_pipeline_handle(impl, pipeline) ==
    Lookup(impl.compute_pipeline_to_index, pipeline)
get_hash_for_graphics_pipeline_handle(impl, pipeline) ==
    Lookup(impl.graphics_pipeline_to_index, pipeline)
get_hash_for_sampler(impl, sampler) ==
    Lookup(impl.sampler_to_index, sampler)
get_hash_for_shader_module(impl, module) ==
    Lookup(impl.shader_module_to_index, module)
get_hash_for_pipeline_layout(impl, layout) ==
    Lookup(impl.pipeline_layout_to_index, layout)
get_hash_for_descriptor_set_layout(impl, layout) ==
    Lookup(impl.descriptor_set_layout_to_index, layout)
get_hash_for_render_pass(impl, render_pass) ==
    Lookup(impl.render_pass_to_index, render_pass)

(***************************************************************************)
(* namespace Hashing                                                       *)
(***************************************************************************)
compute_hash_sampler(impl, sampler) ==
    Hasher_u32(sampler.flags)
    \o Hasher_f32(sampler.maxAnisotropy)
    \o Hasher_f32(sampler.mipLodBias)
    \o Hasher_f32(sampler.minLod)
    \o Hasher_f32(sampler.maxLod)
    \o Hasher_u32(sampler.minFilter)
    \o Hasher_u32(sampler.magFilter)
    \o Hasher_u32(sampler.mipmapMode)
    \o Hasher_u32(sampler.compareEnable)
    \o Hasher_u32(sampler.compareOp)
    \o Hasher_u32(sampler.anisotropyEnable)
    \o Hasher_u32(sampler.addressModeU)
    \o Hasher_u32(sampler.addressModeV)
    \o Hasher_u32(sampler.addressModeW)
    \o Hasher_u32(sampler.borderColor)
    \o Hasher_u32(sampler.unnormalizedCoordinates)

IsSamplerType(descriptorType) ==
    \/ descriptorType = VK_DESCRIPTOR_TYPE_COMBINED_IMAGE_SAMPLER
    \/ descriptorType = VK_DESCRIPTOR_TYPE_SAMPLER

\* The words one binding feeds: the reference fed for an immutable sampler is
\* the hash the table gives for the handle.
hash_binding(impl, binding) ==
    Hasher_u32(binding.binding)
    \o Hasher_u32(binding.descriptorCount)
    \o Hasher_u32(binding.descriptorType)
    \o Hasher_u32(binding.stageFlags)
    \o (IF binding.pImmutableSamplers # NULL /\ IsSamplerType(binding.descriptorType)
        THEN Flatten([j \in 1..binding.descriptorCount |->
                 Hasher_hash(get_hash_for_sampler(impl, binding.pImmutableSamplers[1][j]))])
        ELSE <<>>)

compute_hash_descriptor_set_layout(impl, layout) ==
    Hasher_u32(layout.bindingCount)
    \o Hasher_u32(layout.flags)
    \o Flatten([i \in 1..layout.bindingCount |-> hash_binding(impl, layout.pBindings[i])])

hash_set_layout_ref(impl, set_layout) ==
    IF set_layout # VK_NULL_HANDLE
    THEN Hasher_hash(get_hash_for_descriptor_set_layout(impl, set_layout))
    ELSE Hasher_u32(0)

compute_hash_pipeline_layout(impl, layout) ==
    Hasher_u32(layout.setLayoutCount)
    \o Flatten([i \in 1..layout.setLayoutCount |->
           hash_set_layout_ref(impl, layout.pSetLayouts[i])])
    \o Hasher_u32(layout.pushConstantRangeCount)
    \o Flatten([i \in 1..layout.pushConstantRangeCount |->
           Hasher_u32(layout.pPushConstantRanges[i].stageFlags)
           \o Hasher_u32(layout.pPushConstantRanges[i].size)
           \o Hasher_u32(layout.pPushConstantRanges[i].offset)])
    \o Hasher_u32(layout.flags)

\* h.data(pCode, codeSize) with T = uint32_t: codeSize / 4 words.
compute_hash_shader_module(impl, create_info) ==
    Hasher_data(create_info.pCode, create_info.codeSize, 4)
    \o Hasher_u32(create_info.flags)

hash_specialization_info(spec) ==
    Hasher_data(spec.pData, spec.dataSize, 1)
    \o Hasher_u64(spec.dataSize)
    \o Hasher_u32(spec.mapEntryCount)
    \o Flatten([i \in 1..spec.mapEntryCount |->
           Hasher_u32(spec.pMapEntries[i].offset)
           \o Hasher_u64(spec.pMapEntries[i].size)
           \o Hasher_u32(spec.pMapEntries[i].constantID)])

hash_optional_specialization_info(pSpecializationInfo) ==
    IF pSpecializationInfo # NULL
    THEN hash_specialization_info(pSpecializationInfo[1])
    ELSE Hasher_u32(0)

\* The dynamic_<state> flags of compute_hash_graphics_pipeline: set while the
\* dynamic-state array is fed, false when pDynamicState is absent.
IsDynamic(create_info, state) ==
    /\ create_info.pDynamicState # NULL
    /\ \E i \in 1..create_info.pDynamicState[1].dynamicStateCount :
           create_info.pDynamicState[1].pDynamicStates[i] = state

hash_dynamic_state(create_info) ==
    IF create_info.pDynamicState # NULL
    THEN LET state == create_info.pDynamicState[1] IN
         Hasher_u32(state.dynamicStateCount)
         \o Hasher_u32(state.flags)
         \o Flatten([i \in 1..state.dynamicStateCount |->
                Hasher_u32(state.pDynamicStates[i])])
    ELSE Hasher_u32(0)

hash_depth_stencil_state(create_info) ==
    IF create_info.pDepthStencilState # NULL
    THEN LET ds == create_info.pDepthStencilState[1] IN
         Hasher_u32(ds.flags)
         \o Hasher_u32(ds.depthBoundsTestEnable)
         \o Hasher_u32(ds.depthCompareOp)
         \o Hasher_u32(ds.depthTestEnable)
         \o Hasher_u32(ds.depthWriteEnable)
         \o Hasher_u32(ds.front.compareOp)
         \o Hasher_u32(ds.front.depthFailOp)
         \o Hasher_u32(ds.front.failOp)
         \o Hasher_u32(ds.front.passOp)
         \o Hasher_u32(ds.back.compareOp)
         \o Hasher_u32(ds.back.depthFailOp)
         \o Hasher_u32(ds.back.failOp)
         \o Hasher_u32(ds.back.passOp)
         \o Hasher_u32(ds.stencilTestEnable)
         \o (IF ~IsDynamic(create_info, VK_DYNAMIC_STATE_DEPTH_BOUNDS)
                /\ ds.depthBoundsTestEnable # 0
             THEN Hasher_f32(ds.minDepthBounds) \o Hasher_f32(ds.maxDepthBounds)
             ELSE <<>>)
         \o (IF ds.stencilTestEnable # 0
             THEN (IF ~IsDynamic(create_info, VK_DYNAMIC_STATE_STENCIL_COMPARE_MASK)
                   THEN Hasher_u32(ds.front.compareMask) \o Hasher_u32(ds.back.compareMask)
                   ELSE <<>>)
                  \o (IF ~IsDynamic(create_info, VK_DYNAMIC_STATE_STENCIL_REFERENCE)
                      THEN Hasher_u32(ds.front.reference) \o Hasher_u32(ds.back.reference)
                      ELSE <<>>)
                  \o (IF ~IsDynamic(create_info, VK_DYNAMIC_STATE_STENCIL_WRITE_MASK)
                      THEN Hasher_u32(ds.front.writeMask) \o Hasher_u32(ds.back.writeMask)
                      ELSE <<>>)
             ELSE <<>>)
    ELSE Hasher_u32(0)

hash_input_assembly_state(create_info) ==
    IF create_info.pInputAssemblyState # NULL
    THEN LET ia == create_info.pInputAssemblyState[1] IN
         Hasher_u32(ia.flags)
         \o Hasher_u32(ia.primitiveRestartEnable)
         \o Hasher_u32(ia.topology)
    ELSE Hasher_u32(0)

hash_rasterization_state(create_info) ==
    IF create_info.pRasterizationState # NULL
    THEN LET rs == create_info.pRasterizationState[1] IN
         Hasher_u32(rs.flags)
         \o Hasher_u32(rs.cullMode)
         \o Hasher_u32(rs.depthClampEnable)
         \o Hasher_u32(rs.frontFace)
         \o Hasher_u32(rs.rasterizerDiscardEnable)
         \o Hasher_u32(rs.polygonMode)
         \o Hasher_u32(rs.depthBiasEnable)
         \o (IF rs.depthBiasEnable # 0 /\ ~IsDynamic(create_info, VK_DYNAMIC_STATE_DEPTH_BIAS)
             THEN Hasher_f32(rs.depthBiasClamp)
                  \o Hasher_f32(rs.depthBiasSlopeFactor)
                  \o Hasher_f32(rs.depthBiasConstantFactor)
             ELSE <<>>)
         \o (IF ~IsDynamic(create_info, VK_DYNAMIC_STATE_LINE_WIDTH)
             THEN Hasher_f32(rs.lineWidth)
             ELSE <<>>)
    ELSE Hasher_u32(0)

\* No else branch in the source: an absent multisample state feeds nothing.
hash_multisample_state(create_info) ==
    IF create_info.pMultisampleState # NULL
    THEN LET ms == create_info.pMultisampleState[1] IN
         Hasher_u32(ms.flags)
         \o Hasher_u32(ms.alphaToCoverageEnable)
         \o Hasher_u32(ms.alphaToOneEnable)
         \o Hasher_f32(ms.minSampleShading)
         \o Hasher_u32(ms.rasterizationSamples)
         \o Hasher_u32(ms.sampleShadingEnable)
         \o (IF ms.pSampleMask # NULL
             THEN Flatten([i \in 1..((ms.rasterizationSamples + 31) \div 32) |->
                      Hasher_u32(ms.pSampleMask[1][i])])
             ELSE Hasher_u32(0))
    ELSE <<>>

hash_viewport_state(create_info) ==
    IF create_info.pViewportState # NULL
    THEN LET vp == create_info.pViewportState[1] IN
         Hasher_u32(vp.flags)
         \o Hasher_u32(vp.scissorCount)
         \o Hasher_u32(vp.viewportCount)
         \o (IF ~IsDynamic(create_info, VK_DYNAMIC_STATE_SCISSOR)
             THEN Flatten([i \in 1..vp.scissorCount |->
                      Hasher_s32(vp.pScissors[1][i].offset.x)
                      \o Hasher_s32(vp.pScissors[1][i].offset.y)
                      \o Hasher_u32(vp.pScissors[1][i].extent.width)
                      \o Hasher_u32(vp.pScissors[1][i].extent.height)])
             ELSE <<>>)
         \o (IF ~IsDynamic(create_info, VK_DYNAMIC_STATE_VIEWPORT)
             THEN Flatten([i \in 1..vp.viewportCount |->
                      Hasher_f32(vp.pViewports[1][i].x)
                      \o Hasher_f32(vp.pViewports[1][i].y)
                      \o Hasher_f32(vp.pViewports[1][i].width)
                      \o Hasher_f32(vp.pViewports[1][i].height)
                      \o Hasher_f32(vp.pViewports[1][i].minDepth)
                      \o Hasher_f32(vp.pViewports[1][i].maxDepth)])
             ELSE <<>>)
    ELSE Hasher_u32(0)

hash_vertex_input_state(create_info) ==
    IF create_info.pVertexInputState # NULL
    THEN LET vi == create_info.pVertexInputState[1] IN
         Hasher_u32(vi.flags)
         \o Hasher_u32(vi.vertexAttributeDescriptionCount)
         \o Hasher_u32(vi.vertexBindingDescriptionCount)
         \o Flatten([i \in 1..vi.vertexAttributeDescriptionCount |->
                Hasher_u32(vi.pVertexAttributeDescriptions[i].offset)
                \o Hasher_u32(vi.pVertexAttributeDescriptions[i].binding)
                \o Hasher_u32(vi.pVertexAttributeDescriptions[i].format)
                \o Hasher_u32(vi.pVertexAttributeDescriptions[i].location)])
         \o Flatten([i \in 1..vi.vertexBindingDescriptionCount |->
                Hasher_u32(vi.pVertexBindingDescriptions[i].binding)
                \o Hasher_u32(vi.pVertexBindingDescriptions[i].inputRate)
                \o Hasher_u32(vi.pVertexBindingDescriptions[i].stride)])
    ELSE Hasher_u32(0)

IsConstantFactor(factor) ==
    \/ factor = VK_BLEND_FACTOR_CONSTANT_ALPHA
    \/ factor = VK_BLEND_FACTOR_CONSTANT_COLOR

\* need_blend_constants: some attachment with blending enabled uses a
\* constant colour or alpha factor.
need_blend_constants(b) ==
    \E i \in 1..b.attachmentCount :
       /\ b.pAttachments[i].blendEnable # 0
       /\ \/ IsConstantFactor(b.pAttachments[i].dstAlphaBlendFactor)
          \/ IsConstantFactor(b.pAttachments[i].srcAlphaBlendFactor)
          \/ IsConstantFactor(b.pAttachments[i].dstColorBlendFactor)
          \/ IsConstantFactor(b.pAttachments[i].srcColorBlendFactor)

\* A variant of hash_blend_attachment that feeds the fields of a disabled
\* attachment as well: C7 fails with it.
hash_blend_attachment_all(att) ==
    Hasher_u32(att.blendEnable)
    \o Hasher_u32(att.colorWriteMask)
    \o Hasher_u32(att.srcColorBlendFactor)

hash_blend_attachment(att) ==
    Hasher_u32(att.blendEnable)
    \o (IF att.blendEnable # 0
        THEN Hasher_u32(att.colorWriteMask)
             \o Hasher_u32(att.alphaBlendOp)
             \o Hasher_u32(att.colorBlendOp)
             \o Hasher_u32(att.dstAlphaBlendFactor)
             \o Hasher_u32(att.srcAlphaBlendFactor)
             \o Hasher_u32(att.dstColorBlendFactor)
             \o Hasher_u32(att.srcColorBlendFactor)
        ELSE Hasher_u32(0))

hash_color_blend_state(create_info) ==
    IF create_info.pColorBlendState # NULL
    THEN LET b == create_info.pColorBlendState[1] IN
         Hasher_u32(b.flags)
         \o Hasher_u32(b.attachmentCount)
         \o Hasher_u32(b.logicOpEnable)
         \o Hasher_u32(b.logicOp)
         \o Flatten([i \in 1..b.attachmentCount |-> hash_blend_attachment(b.pAttachments[i])])
         \o (IF need_blend_constants(b)
                /\ ~IsDynamic(create_info, VK_DYNAMIC_STATE_BLEND_CONSTANTS)
             THEN Flatten([i \in 1..4 |-> Hasher_f32(b.blendConstants[i])])
             ELSE <<>>)
    ELSE Hasher_u32(0)

hash_tessellation_state(create_info) ==
    IF create_info.pTessellationState # NULL
    THEN LET tess == create_info.pTessellationState[1] IN
         Hasher_u32(tess.flags) \o Hasher_u32(tess.patchControlPoints)
    ELSE Hasher_u32(0)

hash_stage(impl, stage) ==
    Hasher_u32(stage.flags)
    \o Hasher_string(stage.pName)
    \o Hasher_u32(stage.stage)
    \o Hasher_hash(get_hash_for_shader_module(impl, stage.module))
    \o hash_optional_specialization_info(stage.pSpecializationInfo)

\* An absent base pipeline feeds nothing here (there is no else branch).
compute_hash_graphics_pipeline(impl, create_info) ==
    Hasher_u32(create_info.flags)
    \o (IF create_info.basePipelineHandle # VK_NULL_HANDLE
        THEN Hasher_hash(get_hash_for_graphics_pipeline_handle(impl, create_info.basePipelineHandle))
             \o Hasher_s32(create_info.basePipelineIndex)
        ELSE <<>>)
    \o Hasher_hash(get_hash_for_pipeline_layout(impl, create_info.layout))
    \o Hasher_hash(get_hash_for_render_pass(impl, create_info.renderPass))
    \o Hasher_u32(create_info.subpass)
    \o Hasher_u32(create_info.stageCount)
    \o hash_dynamic_state(create_info)
    \o hash_depth_stencil_state(create_info)
    \o hash_input_assembly_state(create_info)
    \o hash_rasterization_state(create_info)
    \o hash_multisample_state(create_info)
    \o hash_viewport_state(create_info)
    \o hash_vertex_input_state(create_info)
    \o hash_color_blend_state(create_info)
    \o hash_tessellation_state(create_info)
    \o Flatten([i \in 1..create_info.stageCount |-> hash_stage(impl, create_info.pStages[i])])

compute_hash_compute_pipeline(impl, create_info) ==
    Hasher_hash(get_hash_for_pipeline_layout(impl, create_info.layout))
    \o Hasher_u32(create_info.flags)
    \o (IF create_info.basePipelineHandle # VK_NULL_HANDLE
        THEN Hasher_hash(get_hash_for_compute_pipeline_handle(impl, create_info.basePipelineHandle))
             \o Hasher_s32(create_info.basePipelineIndex)
        ELSE Hasher_u32(0))
    \o Hasher_hash(get_hash_for_shader_module(impl, create_info.stage.module))
    \o Hasher_string(create_info.stage.pName)
    \o Hasher_u32(create_info.stage.flags)
    \o Hasher_u32(create_info.stage.stage)
    \o hash_optional_specialization_info(create_info.stage.pSpecializationInfo)

hash_attachment(att) ==
    Hasher_u32(att.flags)
    \o Hasher_u32(att.initialLayout)
    \o Hasher_u32(att.finalLayout)
    \o Hasher_u32(att.format)
    \o Hasher_u32(att.loadOp)
    \o Hasher_u32(att.storeOp)
    \o Hasher_u32(att.stencilLoadOp)
    \o Hasher_u32(att.stencilStoreOp)
    \o Hasher_u32(att.samples)

hash_dependency(dep) ==
    Hasher_u32(dep.dependencyFlags)
    \o Hasher_u32(dep.dstAccessMask)
    \o Hasher_u32(dep.srcAccessMask)
    \o Hasher_u32(dep.srcSubpass)
    \o Hasher_u32(dep.dstSubpass)
    \o Hasher_u32(dep.srcStageMask)
    \o Hasher_u32(dep.dstStageMask)

hash_attachment_refs(refs, count) ==
    Flatten([i \in 1..count |->
        Hasher_u32(refs[1][i].attachment) \o Hasher_u32(refs[1][i].layout)])

hash_subpass(subpass) ==
    Hasher_u32(subpass.flags)
    \o Hasher_u32(subpass.colorAttachmentCount)
    \o Hasher_u32(subpass.inputAttachmentCount)
    \o Hasher_u32(subpass.preserveAttachmentCount)
    \o Hasher_u32(subpass.pipelineBindPoint)
    \o Flatten([i \in 1..subpass.preserveAttachmentCount |->
           Hasher_u32(subpass.pPreserveAttachments[1][i])])
    \o hash_attachment_refs(subpass.pColorAttachments, subpass.colorAttachmentCount)
    \o hash_attachment_refs(subpass.pInputAttachments, subpass.inputAttachmentCount)
    \o (IF subpass.pResolveAttachments # NULL
        THEN hash_attachment_refs(subpass.pResolveAttachments, subpass.colorAttachmentCount)
        ELSE <<>>)
    \o (IF subpass.pDepthStencilAttachment # NULL
        THEN Hasher_u32(subpass.pDepthStencilAttachment[1].attachment)
             \o Hasher_u32(subpass.pDepthStencilAttachment[1].layout)
        ELSE Hasher_u32(0))

compute_hash_render_pass(impl, create_info) ==
    Hasher_u32(create_info.attachmentCount)
    \o Hasher_u32(create_info.dependencyCount)
    \o Hasher_u32(create_info.subpassCount)
    \o Flatten([i \in 1..create_info.attachmentCount |->
           hash_attachment(create_info.pAttachments[1][i])])
    \o Flatten([i \in 1..create_info.dependencyCount |->
           hash_dependency(create_info.pDependencies[1][i])])
    \o Flatten([i \in 1..create_info.subpassCount |->
           hash_subpass(create_info.pSubpasses[i])])

(***************************************************************************)
(* StateRecorder::Impl::copy_<kind>: the deep copy a record_<kind> call    *)
(* makes of the caller's descriptor.  A copy of n elements is the first n  *)
(* elements; what the code does not copy stays as the caller passed it.    *)
(* The result is [outcome, value]: "return" with the copy, "throw" for     *)
(* FOSSILIZE_THROW, "undefined" for a dereference of a null pointer.       *)
(***************************************************************************)
copy(src, count) == SubSeq(src, 1, count)

Return(value) == [outcome |-> "return", value |-> <<value>>]
Throw == [outcome |-> "throw", value |-> NULL]

copy_shader_module(create_info) ==
    Return([create_info EXCEPT !.pCode = copy(create_info.pCode, create_info.codeSize \div 4)])

copy_sampler(create_info) == Return(create_info)

copy_binding(b) ==
    IF b.pImmutableSamplers # NULL /\ IsSamplerType(b.descriptorType)
    THEN [b EXCEPT !.pImmutableSamplers = <<copy(b.pImmutableSamplers[1], b.descriptorCount)>>]
    ELSE b

copy_descriptor_set_layout(create_info) ==
    Return([create_info EXCEPT !.pBindings =
        [i \in 1..create_info.bindingCount |-> copy_binding(create_info.pBindings[i])]])

copy_pipeline_layout(create_info) ==
    Return([create_info EXCEPT
        !.pPushConstantRanges = copy(create_info.pPushConstantRanges, create_info.pushConstantRangeCount),
        !.pSetLayouts = copy(create_info.pSetLayouts, create_info.setLayoutCount)])

copy_specialization_info(info) ==
    [info EXCEPT !.pMapEntries = copy(info.pMapEntries, info.mapEntryCount),
                 !.pData = copy(info.pData, info.dataSize)]

copy_stage(stage) ==
    IF stage.pSpecializationInfo # NULL
    THEN [stage EXCEPT !.pSpecializationInfo = <<copy_specialization_info(stage.pSpecializationInfo[1])>>]
    ELSE stage

copy_compute_pipeline(create_info) ==
    IF create_info.stage.pNext # NULL
    THEN Throw
    ELSE Return([create_info EXCEPT !.stage = copy_stage(create_info.stage)])

\* The sub-state pointers whose pNext copy_graphics_pipeline tests, in the
\* order of the tests; the test made under "if (info->pVertexInputState)"
\* reads pColorBlendState->pNext.
SubStateNext(create_info) ==
    <<create_info.pTessellationState, create_info.pColorBlendState,
      create_info.pMultisampleState, create_info.pVertexInputState,
      create_info.pViewportState, create_info.pInputAssemblyState,
      create_info.pDepthStencilState, create_info.pRasterizationState,
      create_info.pDynamicState>>

copy_multisample_state(ms) ==
    IF ms.pSampleMask # NULL
    THEN [ms EXCEPT !.pSampleMask = <<copy(ms.pSampleMask[1], (ms.rasterizationSamples + 31) \div 32)>>]
    ELSE ms

copy_color_blend_state(blend) ==
    [blend EXCEPT !.pAttachments = copy(blend.pAttachments, blend.attachmentCount)]

copy_vertex_input_state(vs) ==
    [vs EXCEPT
        !.pVertexAttributeDescriptions =
            copy(vs.pVertexAttributeDescriptions, vs.vertexAttributeDescriptionCount),
        !.pVertexBindingDescriptions =
            copy(vs.pVertexBindingDescriptions, vs.vertexBindingDescriptionCount)]

copy_dynamic_state(dyn) ==
    [dyn EXCEPT !.pDynamicStates = copy(dyn.pDynamicStates, dyn.dynamicStateCount)]

\* pViewports and pScissors are not copied: they stay the caller's arrays.
copy_graphics_pipeline_checked(create_info) ==
    IF \/ \E i \in 1..9 : /\ SubStateNext(create_info)[i] # NULL
                          /\ SubStateNext(create_info)[i][1].pNext # NULL
       \/ \E i \in 1..create_info.stageCount : create_info.pStages[i].pNext # NULL
    THEN Throw
    ELSE Return([create_info EXCEPT
        !.pStages = [i \in 1..create_info.stageCount |-> copy_stage(create_info.pStages[i])],
        !.pColorBlendState =
            IF @ # NULL THEN <<copy_color_blend_state(@[1])>> ELSE @,
        !.pVertexInputState =
            IF @ # NULL THEN <<copy_vertex_input_state(@[1])>> ELSE @,
        !.pMultisampleState =
            IF @ # NULL THEN <<copy_multisample_state(@[1])>> ELSE @,
        !.pDynamicState =
            IF @ # NULL THEN <<copy_dynamic_state(@[1])>> ELSE @])

\* With a vertex input state and no colour blend state the first test made
\* under "if (info->pVertexInputState)" reads the pNext of a null pointer;
\* value is what the function returns if the read gives null.
copy_graphics_pipeline(create_info) ==
    IF /\ create_info.pVertexInputState # NULL
       /\ create_info.pColorBlendState = NULL
       /\ (create_info.pTessellationState = NULL
              \/ create_info.pTessellationState[1].pNext = NULL)
    THEN [outcome |-> "undefined", value |-> copy_graphics_pipeline_checked(create_info).value]
    ELSE copy_graphics_pipeline_checked(create_info)

copy_subpass(sub) ==
    [sub EXCEPT
        !.pColorAttachments = IF @ # NULL THEN <<copy(@[1], sub.colorAttachmentCount)>> ELSE @,
        !.pResolveAttachments = IF @ # NULL THEN <<copy(@[1], sub.colorAttachmentCount)>> ELSE @,
        !.pInputAttachments = IF @ # NULL THEN <<copy(@[1], sub.inputAttachmentCount)>> ELSE @,
        !.pPreserveAttachments = IF @ # NULL THEN <<copy(@[1], sub.preserveAttachmentCount)>> ELSE @]

\* pAttachments and pDependencies are copied without a null test: the copy of
\* a null array of no elements is a non-null pointer to no elements.
Elements(p) == IF p = NULL THEN <<>> ELSE p[1]

copy_render_pass(create_info) ==
    Return([create_info EXCEPT
        !.pAttachments = <<copy(Elements(@), create_info.attachmentCount)>>,
        !.pSubpasses = [i \in 1..create_info.subpassCount |-> copy_subpass(create_info.pSubpasses[i])],
        !.pDependencies = <<copy(Elements(@), create_info.dependencyCount)>>])

(***************************************************************************)
(* remap_<kind>_handle and remap_<kind>_ci: the runtime handles of a       *)
(* copied descriptor are replaced by the hashes the tables give, the hash  *)
(* cast to a handle.  A handle that is not in its table throws.            *)
(***************************************************************************)
remap_sampler_handle(impl, sampler) == Lookup(impl.sampler_to_index, sampler)
remap_descriptor_set_layout_handle(impl, layout) ==
    Lookup(impl.descriptor_set_layout_to_index, layout)
remap_pipeline_layout_handle(impl, layout) == Lookup(impl.pipeline_layout_to_index, layout)
remap_shader_module_handle(impl, module) == Lookup(impl.shader_module_to_index, module)
remap_render_pass_handle(impl, render_pass) == Lookup(impl.render_pass_to_index, render_pass)
remap_graphics_pipeline_handle(impl, pipeline) ==
    Lookup(impl.graphics_pipeline_to_index, pipeline)
remap_compute_pipeline_handle(impl, pipeline) ==
    Lookup(impl.compute_pipeline_to_index, pipeline)

\* A remapped descriptor, or Throw when one of the remapped handles threw.
Remapped(handles, info) ==
    IF \E i \in DOMAIN handles : Throws(handles[i]) THEN Throw ELSE Return(info)

remap_binding(impl, b) ==
    IF b.pImmutableSamplers # NULL /\ IsSamplerType(b.descriptorType)
    THEN [b EXCEPT !.pImmutableSamplers =
             <<[j \in 1..b.descriptorCount |-> remap_sampler_handle(impl, @[1][j])]>>]
    ELSE b

remap_descriptor_set_layout_ci(impl, info) ==
    LET bindings == [i \in 1..info.bindingCount |-> remap_binding(impl, info.pBindings[i])]
        remapped == Flatten([i \in 1..info.bindingCount |->
                        IF bindings[i].pImmutableSamplers # NULL
                           /\ IsSamplerType(bindings[i].descriptorType)
                        THEN bindings[i].pImmutableSamplers[1] ELSE <<>>])
    IN  Remapped(remapped, [info EXCEPT !.pBindings = bindings])

\* Every slot is remapped, a null slot included.
remap_pipeline_layout_ci(impl, info) ==
    LET set_layouts == [i \in 1..info.setLayoutCount |->
                           remap_descriptor_set_layout_handle(impl, info.pSetLayouts[i])]
    IN  Remapped(set_layouts, [info EXCEPT !.pSetLayouts = set_layouts])

remap_shader_module_ci(impl, info) == Return(info)

remap_graphics_pipeline_ci(impl, info) ==
    LET render_pass == remap_render_pass_handle(impl, info.renderPass)
        layout == remap_pipeline_layout_handle(impl, info.layout)
        base == IF info.basePipelineHandle # VK_NULL_HANDLE
                THEN remap_graphics_pipeline_handle(impl, info.basePipelineHandle)
                ELSE info.basePipelineHandle
        modules == [i \in 1..info.stageCount |->
                       remap_shader_module_handle(impl, info.pStages[i].module)]
    IN  Remapped(<<render_pass, layout, base>> \o modules,
                 [info EXCEPT !.renderPass = render_pass,
                              !.layout = layout,
                              !.basePipelineHandle = base,
                              !.pStages = [i \in 1..info.stageCount |->
                                              [@[i] EXCEPT !.module = modules[i]]]])

remap_compute_pipeline_ci(impl, info) ==
    LET module == remap_shader_module_handle(impl, info.stage.module)
        base == IF info.basePipelineHandle # VK_NULL_HANDLE
                THEN remap_compute_pipeline_handle(impl, info.basePipelineHandle)
                ELSE info.basePipelineHandle
        layout == remap_pipeline_layout_handle(impl, info.layout)
    IN  Remapped(<<module, base, layout>>,
                 [info EXCEPT !.stage.module = module,
                              !.basePipelineHandle = base,
                              !.layout = layout])

remap_sampler_ci(impl, info) == Return(info)

remap_render_pass_ci(impl, info) == Return(info)

(***************************************************************************)
(* The host application: the Vulkan objects it creates and records.  The   *)
(* object numbered o has the runtime handle Handle(o).                     *)
(***************************************************************************)
Extension == <<[sType |-> 1000]>>
main == <<109, 97, 105, 110>>

SamplerInfo(maxLod) ==
    [sType |-> VK_STRUCTURE_TYPE_SAMPLER_CREATE_INFO, pNext |-> NULL, flags |-> 0,
     magFilter |-> 1, minFilter |-> 1, mipmapMode |-> 1,
     addressModeU |-> 0, addressModeV |-> 2, addressModeW |-> 0,
     mipLodBias |-> 0, anisotropyEnable |-> 1, maxAnisotropy |-> 16,
     compareEnable |-> 0, compareOp |-> 7, minLod |-> 0, maxLod |-> maxLod,
     borderColor |-> 3, unnormalizedCoordinates |-> 0]

Binding(binding, descriptorType, pImmutableSamplers) ==
    [binding |-> binding, descriptorType |-> descriptorType, descriptorCount |-> 1,
     stageFlags |-> 16, pImmutableSamplers |-> pImmutableSamplers]

SetLayoutInfo(pBindings) ==
    [sType |-> VK_STRUCTURE_TYPE_DESCRIPTOR_SET_LAYOUT_CREATE_INFO, pNext |-> NULL,
     flags |-> 0, bindingCount |-> Len(pBindings), pBindings |-> pBindings]

PipelineLayoutInfo(pSetLayouts) ==
    [sType |-> VK_STRUCTURE_TYPE_PIPELINE_LAYOUT_CREATE_INFO, pNext |-> NULL, flags |-> 0,
     setLayoutCount |-> Len(pSetLayouts), pSetLayouts |-> pSetLayouts,
     pushConstantRangeCount |-> 1,
     pPushConstantRanges |-> <<[stageFlags |-> 16, offset |-> 0, size |-> 64]>>]

ShaderModuleInfo(pCode) ==
    [sType |-> VK_STRUCTURE_TYPE_SHADER_MODULE_CREATE_INFO, pNext |-> NULL, flags |-> 0,
     codeSize |-> 4 * Len(pCode), pCode |-> pCode]

AttachmentRef(attachment) == [attachment |-> attachment, layout |-> 2]

RenderPassInfo ==
    [sType |-> VK_STRUCTURE_TYPE_RENDER_PASS_CREATE_INFO, pNext |-> NULL, flags |-> 0,
     attachmentCount |-> 1,
     pAttachments |-> <<<<[flags |-> 0, format |-> 37, samples |-> 1, loadOp |-> 1,
                          storeOp |-> 0, stencilLoadOp |-> 2, stencilStoreOp |-> 1,
                          initialLayout |-> 0, finalLayout |-> 2]>>>>,
     subpassCount |-> 1,
     pSubpasses |-> <<[flags |-> 0, pipelineBindPoint |-> 0,
                       inputAttachmentCount |-> 0, pInputAttachments |-> NULL,
                       colorAttachmentCount |-> 1,
                       pColorAttachments |-> <<<<AttachmentRef(0)>>>>,
                       pResolveAttachments |-> NULL,
                       pDepthStencilAttachment |-> NULL,
                       preserveAttachmentCount |-> 0, pPreserveAttachments |-> NULL]>>,
     dependencyCount |-> 1,
     pDependencies |-> <<<<[srcSubpass |-> 0, dstSubpass |-> 0, srcStageMask |-> 1024,
                           dstStageMask |-> 128, srcAccessMask |-> 256,
                           dstAccessMask |-> 32, dependencyFlags |-> 1]>>>>]

SpecializationInfo ==
    [mapEntryCount |-> 1,
     pMapEntries |-> <<[constantID |-> 3, offset |-> 0, size |-> 2]>>,
     dataSize |-> 2, pData |-> <<5, 6>>]

Stage(stage, module, pSpecializationInfo) ==
    [pNext |-> NULL, flags |-> 0, stage |-> stage, module |-> module, pName |-> main,
     pSpecializationInfo |-> pSpecializationInfo]

ComputePipelineInfo(layout, module, basePipelineHandle, basePipelineIndex) ==
    [sType |-> VK_STRUCTURE_TYPE_COMPUTE_PIPELINE_CREATE_INFO, pNext |-> NULL, flags |-> 0,
     stage |-> Stage(32, module, <<SpecializationInfo>>), layout |-> layout,
     basePipelineHandle |-> basePipelineHandle, basePipelineIndex |-> basePipelineIndex]

VertexInputState ==
    [pNext |-> NULL, flags |-> 0,
     vertexBindingDescriptionCount |-> 1,
     pVertexBindingDescriptions |-> <<[binding |-> 0, stride |-> 16, inputRate |-> 0]>>,
     vertexAttributeDescriptionCount |-> 1,
     pVertexAttributeDescriptions |->
         <<[location |-> 0, binding |-> 0, format |-> 109, offset |-> 0]>>]

InputAssemblyState ==
    [pNext |-> NULL, flags |-> 0, topology |-> 3, primitiveRestartEnable |-> 0]

MultisampleState ==
    [pNext |-> NULL, flags |-> 0, rasterizationSamples |-> 1, sampleShadingEnable |-> 0,
     minSampleShading |-> 1, pSampleMask |-> NULL, alphaToCoverageEnable |-> 0,
     alphaToOneEnable |-> 0]

TessellationState == [pNext |-> NULL, flags |-> 0, patchControlPoints |-> 3]

RasterizationState(depthBiasEnable, depthBiasClamp, lineWidth) ==
    [pNext |-> NULL, flags |-> 0, depthClampEnable |-> 0, rasterizerDiscardEnable |-> 0,
     polygonMode |-> 0, cullMode |-> 2, frontFace |-> 1,
     depthBiasEnable |-> depthBiasEnable, depthBiasConstantFactor |-> 1,
     depthBiasClamp |-> depthBiasClamp, depthBiasSlopeFactor |-> 1,
     lineWidth |-> lineWidth]

BlendAttachment(blendEnable, srcColorBlendFactor, colorWriteMask) ==
    [blendEnable |-> blendEnable, srcColorBlendFactor |-> srcColorBlendFactor,
     dstColorBlendFactor |-> 0, colorBlendOp |-> 0, srcAlphaBlendFactor |-> 1,
     dstAlphaBlendFactor |-> 0, alphaBlendOp |-> 0, colorWriteMask |-> colorWriteMask]

ColorBlendState(attachment, blendConstant) ==
    [pNext |-> NULL, flags |-> 0, logicOpEnable |-> 0, logicOp |-> 3,
     attachmentCount |-> 1, pAttachments |-> <<attachment>>,
     blendConstants |-> <<blendConstant, 0, 0, 0>>]

GraphicsPipelineInfo(layout, renderPass, module, basePipelineHandle, basePipelineIndex) ==
    [sType |-> VK_STRUCTURE_TYPE_GRAPHICS_PIPELINE_CREATE_INFO, pNext |-> NULL, flags |-> 0,
     stageCount |-> 1, pStages |-> <<Stage(1, module, NULL)>>,
     pVertexInputState |-> <<VertexInputState>>,
     pInputAssemblyState |-> <<InputAssemblyState>>,
     pTessellationState |-> NULL,
     pViewportState |-> NULL,
     pRasterizationState |-> <<RasterizationState(0, 0, 1)>>,
     pMultisampleState |-> NULL,
     pDepthStencilState |-> NULL,
     pColorBlendState |-> <<ColorBlendState(BlendAttachment(0, 1, 15), 0)>>,
     pDynamicState |-> NULL,
     layout |-> layout, renderPass |-> renderPass, subpass |-> 0,
     basePipelineHandle |-> basePipelineHandle, basePipelineIndex |-> basePipelineIndex]

ViewportState(x, scissor_x) ==
    [pNext |-> NULL, flags |-> 0,
     viewportCount |-> 1,
     pViewports |-> <<<<[x |-> x, y |-> 0, width |-> 64, height |-> 64,
                        minDepth |-> 0, maxDepth |-> 1]>>>>,
     scissorCount |-> 1,
     pScissors |-> <<<<[offset |-> [x |-> scissor_x, y |-> 0],
                       extent |-> [width |-> 64, height |-> 64]]>>>>]

\* The graphics pipeline with the vertex input, the colour blend and the
\* tessellation state that the bits of k name, and no other sub-state.
SubStatePipeline(k) ==
    [GraphicsPipelineInfo(Handle(4), Handle(7), Handle(6), VK_NULL_HANDLE, -1) EXCEPT
        !.pVertexInputState = IF k % 2 = 1 THEN <<VertexInputState>> ELSE NULL,
        !.pColorBlendState =
            IF (k \div 2) % 2 = 1 THEN <<ColorBlendState(BlendAttachment(0, 1, 15), 0)>>
            ELSE NULL,
        !.pTessellationState = IF (k \div 4) % 2 = 1 THEN <<TessellationState>> ELSE NULL,
        !.pInputAssemblyState = NULL,
        !.pRasterizationState = NULL]

\* A descriptor some of whose arrays the copy of its kind leaves where they
\* are, in the memory of the caller of object o: the field caller stands for
\* the addresses of those arrays, which every copy of the descriptor keeps.
Retaining(o, info) == [caller |-> o] @@ info

\* Two samplers of the same content, a set layout with an immutable sampler,
\* a pipeline layout over that set layout and one with a null slot, a shader
\* module, a render pass, a graphics and a compute pipeline, a compute
\* pipeline over the layout with the null slot, and a pipeline of each kind
\* derived from the first of its kind; a set layout whose uniform-buffer
\* binding has an array of immutable samplers, a pipeline layout over it and
\* a graphics pipeline over that with a viewport and a scissor; a sampler of
\* another content; the graphics pipelines of the eight combinations of a
\* vertex input, a colour blend and a tessellation state.  A pipeline that
\* names no base by index has basePipelineIndex -1.
Objects ==
    <<SamplerInfo(4),
      SamplerInfo(4),
      SetLayoutInfo(<<Binding(0, VK_DESCRIPTOR_TYPE_SAMPLER, <<<<Handle(1)>>>>),
                      Binding(1, VK_DESCRIPTOR_TYPE_UNIFORM_BUFFER, NULL)>>),
      PipelineLayoutInfo(<<Handle(3)>>),
      PipelineLayoutInfo(<<VK_NULL_HANDLE>>),
      ShaderModuleInfo(<<7, 9>>),
      RenderPassInfo,
      GraphicsPipelineInfo(Handle(4), Handle(7), Handle(6), VK_NULL_HANDLE, -1),
      ComputePipelineInfo(Handle(4), Handle(6), VK_NULL_HANDLE, -1),
      ComputePipelineInfo(Handle(5), Handle(6), VK_NULL_HANDLE, -1),
      GraphicsPipelineInfo(Handle(4), Handle(7), Handle(6), Handle(8), -1),
      ComputePipelineInfo(Handle(4), Handle(6), Handle(9), -1),
      Retaining(13, SetLayoutInfo(<<Binding(0, VK_DESCRIPTOR_TYPE_UNIFORM_BUFFER,
                                            <<<<Handle(1)>>>>)>>)),
      PipelineLayoutInfo(<<Handle(13)>>),
      Retaining(15, [GraphicsPipelineInfo(Handle(14), Handle(7), Handle(6),
                                          VK_NULL_HANDLE, -1)
                        EXCEPT !.pViewportState = <<ViewportState(0, 0)>>]),
      SamplerInfo(5)>>
    \o [k \in 1..8 |-> SubStatePipeline(k - 1)]

ObjectIds == DOMAIN Objects

\* The objects whose descriptors the caller overwrites or frees after its call.
CallerObjects == {1, 6, 7, 13, 14, 15}

\* The graphics pipelines of the combinations of sub-states.
SubStateObjects == 17..24

\* The objects the replay is about.
ReplayObjects == ObjectIds \ ({13, 14, 15, 16} \cup SubStateObjects)

\* The objects the host threads record concurrently.
HostObjects ==
    { o \in ReplayObjects : "basePipelineHandle" \in DOMAIN Objects[o]
                               => Objects[o].basePipelineHandle = VK_NULL_HANDLE }

(***************************************************************************)
(* The memory of the caller.  The arrays of the descriptor of an object    *)
(* are as they were at the call (intact), hold other values (overwritten)  *)
(* or are freed.  A read through a retained address gives the values the   *)
(* array has now; a read of a freed array is undefined: it gives the old   *)
(* values, gives other values or ends the process.                         *)
(***************************************************************************)
Retains(info) == "caller" \in DOMAIN info

\* The retained arrays with other values in every element.
Overwritten(info) ==
    CASE info.sType = VK_STRUCTURE_TYPE_DESCRIPTOR_SET_LAYOUT_CREATE_INFO ->
             [info EXCEPT !.pBindings =
                 [i \in 1..info.bindingCount |->
                     IF @[i].pImmutableSamplers # NULL /\ ~IsSamplerType(@[i].descriptorType)
                     THEN [@[i] EXCEPT !.pImmutableSamplers =
                              <<[j \in DOMAIN @[1] |-> Handle(98)]>>]
                     ELSE @[i]]]
      [] info.sType = VK_STRUCTURE_TYPE_GRAPHICS_PIPELINE_CREATE_INFO ->
             [info EXCEPT !.pViewportState =
                 IF @ = NULL THEN @
                 ELSE <<[@[1] EXCEPT
                           !.pViewports =
                               IF @ = NULL THEN @
                               ELSE <<[i \in DOMAIN @[1] |-> [@[1][i] EXCEPT !.x = 8]]>>,
                           !.pScissors =
                               IF @ = NULL THEN @
                               ELSE <<[i \in DOMAIN @[1] |->
                                         [@[1][i] EXCEPT !.offset.x = 8]]>>]>>]
      [] OTHER -> info

\* The descriptor a read through the addresses of info gives, reused telling
\* whether freed memory holds other values by now.
View(memory, info, reused) ==
    IF ~Retains(info) THEN info
    ELSE CASE memory[info.caller] = "intact" -> info
           [] memory[info.caller] = "overwritten" -> Overwritten(info)
           [] memory[info.caller] = "freed" -> IF reused THEN Overwritten(info) ELSE info

\* The stores as a read of their descriptors gives them.
ViewImpl(memory, impl, reused) ==
    [name \in DOMAIN impl |->
        IF name \in {"descriptor_sets", "graphics_pipelines"}
        THEN [hash \in DOMAIN impl[name] |-> View(memory, impl[name][hash], reused)]
        ELSE impl[name]]

\* What a read of freed memory may find.
Reuse(memory) == IF \E o \in DOMAIN memory : memory[o] = "freed" THEN BOOLEAN ELSE {FALSE}

(***************************************************************************)
(* The switch of StateRecorder::Impl::record_task on the sType of the      *)
(* queued descriptor: the hash function, the handle->hash table, the store *)
(* and the remap of each kind.                                             *)
(***************************************************************************)
compute_hash(impl, info) ==
    CASE info.sType = VK_STRUCTURE_TYPE_SAMPLER_CREATE_INFO ->
             compute_hash_sampler(impl, info)
      [] info.sType = VK_STRUCTURE_TYPE_DESCRIPTOR_SET_LAYOUT_CREATE_INFO ->
             compute_hash_descriptor_set_layout(impl, info)
      [] info.sType = VK_STRUCTURE_TYPE_PIPELINE_LAYOUT_CREATE_INFO ->
             compute_hash_pipeline_layout(impl, info)
      [] info.sType = VK_STRUCTURE_TYPE_RENDER_PASS_CREATE_INFO ->
             compute_hash_render_pass(impl, info)
      [] info.sType = VK_STRUCTURE_TYPE_SHADER_MODULE_CREATE_INFO ->
             compute_hash_shader_module(impl, info)
      [] info.sType = VK_STRUCTURE_TYPE_GRAPHICS_PIPELINE_CREATE_INFO ->
             compute_hash_graphics_pipeline(impl, info)
      [] info.sType = VK_STRUCTURE_TYPE_COMPUTE_PIPELINE_CREATE_INFO ->
             compute_hash_compute_pipeline(impl, info)

to_index(sType) ==
    CASE sType = VK_STRUCTURE_TYPE_SAMPLER_CREATE_INFO -> "sampler_to_index"
      [] sType = VK_STRUCTURE_TYPE_DESCRIPTOR_SET_LAYOUT_CREATE_INFO ->
             "descriptor_set_layout_to_index"
      [] sType = VK_STRUCTURE_TYPE_PIPELINE_LAYOUT_CREATE_INFO -> "pipeline_layout_to_index"
      [] sType = VK_STRUCTURE_TYPE_RENDER_PASS_CREATE_INFO -> "render_pass_to_index"
      [] sType = VK_STRUCTURE_TYPE_SHADER_MODULE_CREATE_INFO -> "shader_module_to_index"
      [] sType = VK_STRUCTURE_TYPE_GRAPHICS_PIPELINE_CREATE_INFO ->
             "graphics_pipeline_to_index"
      [] sType = VK_STRUCTURE_TYPE_COMPUTE_PIPELINE_CREATE_INFO -> "compute_pipeline_to_index"

store_of(sType) ==
    CASE sType = VK_STRUCTURE_TYPE_SAMPLER_CREATE_INFO -> "samplers"
      [] sType = VK_STRUCTURE_TYPE_DESCRIPTOR_SET_LAYOUT_CREATE_INFO -> "descriptor_sets"
      [] sType = VK_STRUCTURE_TYPE_PIPELINE_LAYOUT_CREATE_INFO -> "pipeline_layouts"
      [] sType = VK_STRUCTURE_TYPE_RENDER_PASS_CREATE_INFO -> "render_passes"
      [] sType = VK_STRUCTURE_TYPE_SHADER_MODULE_CREATE_INFO -> "shader_modules"
      [] sType = VK_STRUCTURE_TYPE_GRAPHICS_PIPELINE_CREATE_INFO -> "graphics_pipelines"
      [] sType = VK_STRUCTURE_TYPE_COMPUTE_PIPELINE_CREATE_INFO -> "compute_pipelines"

\* The sampler and render-pass cases store the descriptor without a remap call.
remap_ci(impl, info) ==
    CASE info.sType = VK_STRUCTURE_TYPE_SAMPLER_CREATE_INFO -> Return(info)
      [] info.sType = VK_STRUCTURE_TYPE_DESCRIPTOR_SET_LAYOUT_CREATE_INFO ->
             remap_descriptor_set_layout_ci(impl, info)
      [] info.sType = VK_STRUCTURE_TYPE_PIPELINE_LAYOUT_CREATE_INFO ->
             remap_pipeline_layout_ci(impl, info)
      [] info.sType = VK_STRUCTURE_TYPE_RENDER_PASS_CREATE_INFO -> Return(info)
      [] info.sType = VK_STRUCTURE_TYPE_SHADER_MODULE_CREATE_INFO -> Return(info)
      [] info.sType = VK_STRUCTURE_TYPE_GRAPHICS_PIPELINE_CREATE_INFO ->
             remap_graphics_pipeline_ci(impl, info)
      [] info.sType = VK_STRUCTURE_TYPE_COMPUTE_PIPELINE_CREATE_INFO ->
             remap_compute_pipeline_ci(impl, info)

\* A variant of Assign that writes no entry: C2 depends on the worker's
\* writes and fails with this one.
Assign_dropped(table, key, value) == table

\* table[key] = value of std::unordered_map: the entry is inserted or replaced.
Assign(table, key, value) == (key :> value) @@ table

\* The body of one case once the hash is known: the handle->hash entry is
\* written first; the store gets the remapped descriptor when it has no entry
\* for the hash; a throwing remap leaves the store as it was.
record_case(impl, handle, info, hash) ==
    LET indexed == [impl EXCEPT ![to_index(info.sType)] = Assign(@, handle, hash)]
        remapped == remap_ci(indexed, info)
    IN  IF hash \in DOMAIN indexed[store_of(info.sType)] \/ remapped.outcome # "return"
        THEN indexed
        ELSE [indexed EXCEPT ![store_of(info.sType)] = Assign(@, hash, remapped.value[1])]

copy_ci(info) ==
    CASE info.sType = VK_STRUCTURE_TYPE_SAMPLER_CREATE_INFO -> copy_sampler(info)
      [] info.sType = VK_STRUCTURE_TYPE_DESCRIPTOR_SET_LAYOUT_CREATE_INFO ->
             copy_descriptor_set_layout(info)
      [] info.sType = VK_STRUCTURE_TYPE_PIPELINE_LAYOUT_CREATE_INFO ->
             copy_pipeline_layout(info)
      [] info.sType = VK_STRUCTURE_TYPE_RENDER_PASS_CREATE_INFO -> copy_render_pass(info)
      [] info.sType = VK_STRUCTURE_TYPE_SHADER_MODULE_CREATE_INFO -> copy_shader_module(info)
      [] info.sType = VK_STRUCTURE_TYPE_GRAPHICS_PIPELINE_CREATE_INFO ->
             copy_graphics_pipeline(info)
      [] info.sType = VK_STRUCTURE_TYPE_COMPUTE_PIPELINE_CREATE_INFO ->
             copy_compute_pipeline(info)

\* The handles a descriptor refers to: the ones its hash function looks up.
References(info) ==
    CASE info.sType = VK_STRUCTURE_TYPE_DESCRIPTOR_SET_LAYOUT_CREATE_INFO ->
             UNION { IF info.pBindings[i].pImmutableSamplers # NULL
                        /\ IsSamplerType(info.pBindings[i].descriptorType)
                     THEN { info.pBindings[i].pImmutableSamplers[1][j] :
                                j \in 1..info.pBindings[i].descriptorCount }
                     ELSE {} : i \in 1..info.bindingCount }
      [] info.sType = VK_STRUCTURE_TYPE_PIPELINE_LAYOUT_CREATE_INFO ->
             { info.pSetLayouts[i] : i \in 1..info.setLayoutCount } \ {VK_NULL_HANDLE}
      [] info.sType = VK_STRUCTURE_TYPE_GRAPHICS_PIPELINE_CREATE_INFO ->
             ({ info.layout, info.renderPass, info.basePipelineHandle }
                  \cup { info.pStages[i].module : i \in 1..info.stageCount })
             \ {VK_NULL_HANDLE}
      [] info.sType = VK_STRUCTURE_TYPE_COMPUTE_PIPELINE_CREATE_INFO ->
             { info.layout, info.stage.module, info.basePipelineHandle } \ {VK_NULL_HANDLE}
      [] OTHER -> {}

(***************************************************************************)
(* The JSON documents.  A rapidjson object with fixed members is a record; *)
(* a member the code adds under a condition is merged in with @@ and       *)
(* HasMember is a test of the record's domain; an array is a sequence; an  *)
(* object keyed by hash strings (a section of a document) is the sequence  *)
(* of its members [name, value] in the order of their AddMember calls.  A  *)
(* string is the sequence of its character codes.  An unsigned or signed   *)
(* number is an integer, its sign deciding IsUint; a float is [float |-> v]*)
(* with its bit pattern v: the writer prints the shortest decimal that     *)
(* reads back to the same value.                                           *)
(***************************************************************************)
HasMember(obj, name) == name \in DOMAIN obj
Member(name, value) == [name |-> name, value |-> value]
HasName(json_map, name) == \E i \in DOMAIN json_map : json_map[i].name = name
Float(value) == [float |-> value]
GetFloat(value) == value.float
Optional(present, members) == IF present THEN members ELSE <<>>

\* sprintf("%X") of one digit and the digit sscanf("%x") reads.
HexDigit(v) == IF v < 10 THEN 48 + v ELSE 55 + v
HexValue(c) == IF c >= 97 THEN c - 87 ELSE IF c >= 65 THEN c - 55 ELSE c - 48

\* uint64_string: sprintf("%016" PRIX64) of a 64-bit value.  Zero prints as
\* sixteen '0'; a value that is a sequence of words prints the digits of its
\* words, five to a word (the word plus 16, marks being negative).
HexWord(w) ==
    LET v == w + 16
    IN  <<HexDigit((v \div 65536) % 16), HexDigit((v \div 4096) % 16),
          HexDigit((v \div 256) % 16), HexDigit((v \div 16) % 16), HexDigit(v % 16)>>

uint64_string(value) ==
    IF value = <<>> THEN [i \in 1..16 |-> 48]
    ELSE [i \in 1..(5 * Len(value)) |-> HexWord(value[((i - 1) \div 5) + 1])[((i - 1) % 5) + 1]]

\* string_to_uint64: sscanf("%" SCNx64) of the digits.
HexNumber(digits) ==
    HexValue(digits[1]) * 65536 + HexValue(digits[2]) * 4096 + HexValue(digits[3]) * 256
        + HexValue(digits[4]) * 16 + HexValue(digits[5])

string_to_uint64(str) ==
    IF \A i \in DOMAIN str : str[i] = 48 THEN <<>>
    ELSE [i \in 1..(Len(str) \div 5) |-> HexNumber(SubSeq(str, 5 * i - 4, 5 * i)) - 16]

\* The bytes of an array of 32-bit words in memory (little endian) and back.
Bytes(words) ==
    Flatten([i \in DOMAIN words |->
                <<words[i] % 256, (words[i] \div 256) % 256, (words[i] \div 65536) % 256, 0>>])
Words(bytes) ==
    [i \in 1..(Len(bytes) \div 4) |->
        bytes[4 * i - 3] + 256 * bytes[4 * i - 2] + 65536 * bytes[4 * i - 1]]

base64(v) ==
    IF v = 63 THEN 47
    ELSE IF v = 62 THEN 43
    ELSE IF v >= 52 THEN 48 + (v - 52)
    ELSE IF v >= 26 THEN 97 + (v - 26)
    ELSE 65 + v

encode_base64(data, size) ==
    Flatten([k \in 1..((size + 2) \div 3) |->
        LET i == 3 * (k - 1)
            code == data[i + 1] * 65536
                      + (IF i + 1 < size THEN data[i + 2] * 256 ELSE 0)
                      + (IF i + 2 < size THEN data[i + 3] ELSE 0)
            outbytes == IF size - i < 3 THEN size - i ELSE 3
        IN  <<base64((code \div 262144) % 64),
              base64((code \div 4096) % 64),
              IF outbytes = 1 THEN 61 ELSE base64((code \div 64) % 64),
              IF outbytes <= 2 THEN 61 ELSE base64(code % 64)>>])

base64_index(c) ==
    IF c >= 65 /\ c <= 90 THEN c - 65
    ELSE IF c >= 97 /\ c <= 122 THEN (c - 97) + 26
    ELSE IF c >= 48 /\ c <= 57 THEN (c - 48) + 52
    ELSE IF c = 43 THEN 62
    ELSE IF c = 47 THEN 63
    ELSE 0

\* decode_base64: groups of four characters until length bytes are out or
\* the string ends; the bytes of the buffer the loop does not reach are not
\* part of the result.
RECURSIVE decode_base64_from(_, _, _)
decode_base64_from(data, length, i) ==
    IF i >= length \/ Len(data) < 4 THEN <<>>
    ELSE LET values == base64_index(data[1]) * 262144 + base64_index(data[2]) * 4096
                         + base64_index(data[3]) * 64 + base64_index(data[4])
             out == IF data[3] = 61 /\ data[4] = 61
                    THEN <<(values \div 65536) % 256>>
                    ELSE IF data[4] = 61
                    THEN <<(values \div 65536) % 256, (values \div 256) % 256>>
                    ELSE <<(values \div 65536) % 256, (values \div 256) % 256, values % 256>>
         IN  out \o decode_base64_from(SubSeq(data, 5, Len(data)), length, i + Len(out))

decode_base64(data, length) == decode_base64_from(data, length, 0)

\* ----- json_value, one per descriptor kind -----
json_value_sampler(sampler) ==
    [flags |-> sampler.flags,
     minFilter |-> sampler.minFilter,
     magFilter |-> sampler.magFilter,
     maxAnisotropy |-> Float(sampler.maxAnisotropy),
     compareOp |-> sampler.compareOp,
     anisotropyEnable |-> sampler.anisotropyEnable,
     mipmapMode |-> sampler.mipmapMode,
     addressModeU |-> sampler.addressModeU,
     addressModeV |-> sampler.addressModeV,
     addressModeW |-> sampler.addressModeW,
     borderColor |-> sampler.borderColor,
     unnormalizedCoordinates |-> sampler.unnormalizedCoordinates,
     compareEnable |-> sampler.compareEnable,
     mipLodBias |-> Float(sampler.mipLodBias),
     minLod |-> Float(sampler.minLod),
     maxLod |-> Float(sampler.maxLod)]

\* A binding's immutableSamplers are emitted whenever the pointer is set,
\* whatever the descriptor type.
json_value_binding(b) ==
    [descriptorType |-> b.descriptorType,
     descriptorCount |-> b.descriptorCount,
     stageFlags |-> b.stageFlags,
     binding |-> b.binding]
    @@ Optional(b.pImmutableSamplers # NULL,
                [immutableSamplers |->
                    [j \in 1..b.descriptorCount |-> uint64_string(b.pImmutableSamplers[1][j])]])

json_value_descriptor_set_layout(layout) ==
    [flags |-> layout.flags,
     bindings |-> [i \in 1..layout.bindingCount |-> json_value_binding(layout.pBindings[i])]]

json_value_pipeline_layout(layout) ==
    [flags |-> layout.flags,
     pushConstantRanges |->
         [i \in 1..layout.pushConstantRangeCount |->
             [stageFlags |-> layout.pPushConstantRanges[i].stageFlags,
              size |-> layout.pPushConstantRanges[i].size,
              offset |-> layout.pPushConstantRanges[i].offset]],
     setLayouts |-> [i \in 1..layout.setLayoutCount |-> uint64_string(layout.pSetLayouts[i])]]

json_value_shader_module(module) ==
    [flags |-> module.flags,
     codeSize |-> module.codeSize,
     code |-> encode_base64(Bytes(module.pCode), module.codeSize)]

json_value_attachment_refs(refs, count) ==
    [j \in 1..count |-> [attachment |-> refs[1][j].attachment, layout |-> refs[1][j].layout]]

json_value_subpass(sub) ==
    [flags |-> sub.flags, pipelineBindPoint |-> sub.pipelineBindPoint]
    @@ Optional(sub.pPreserveAttachments # NULL,
                [preserveAttachments |->
                    [j \in 1..sub.preserveAttachmentCount |-> sub.pPreserveAttachments[1][j]]])
    @@ Optional(sub.pInputAttachments # NULL,
                [inputAttachments |->
                    json_value_attachment_refs(sub.pInputAttachments, sub.inputAttachmentCount)])
    @@ Optional(sub.pColorAttachments # NULL,
                [colorAttachments |->
                    json_value_attachment_refs(sub.pColorAttachments, sub.colorAttachmentCount)])
    @@ Optional(sub.pResolveAttachments # NULL,
                [resolveAttachments |->
                    json_value_attachment_refs(sub.pResolveAttachments, sub.colorAttachmentCount)])
    @@ Optional(sub.pDepthStencilAttachment # NULL,
                [depthStencilAttachment |->
                    [attachment |-> sub.pDepthStencilAttachment[1].attachment,
                     layout |-> sub.pDepthStencilAttachment[1].layout]])

json_value_render_pass(pass) ==
    [flags |-> pass.flags]
    @@ Optional(pass.pDependencies # NULL,
                [dependencies |->
                    [i \in 1..pass.dependencyCount |->
                        LET d == pass.pDependencies[1][i]
                        IN  [dependencyFlags |-> d.dependencyFlags,
                             dstAccessMask |-> d.dstAccessMask,
                             srcAccessMask |-> d.srcAccessMask,
                             dstStageMask |-> d.dstStageMask,
                             srcStageMask |-> d.srcStageMask,
                             dstSubpass |-> d.dstSubpass,
                             srcSubpass |-> d.srcSubpass]]])
    @@ Optional(pass.pAttachments # NULL,
                [attachments |->
                    [i \in 1..pass.attachmentCount |->
                        LET a == pass.pAttachments[1][i]
                        IN  [flags |-> a.flags, format |-> a.format,
                             finalLayout |-> a.finalLayout,
                             initialLayout |-> a.initialLayout,
                             loadOp |-> a.loadOp, storeOp |-> a.storeOp,
                             samples |-> a.samples,
                             stencilLoadOp |-> a.stencilLoadOp,
                             stencilStoreOp |-> a.stencilStoreOp]]])
    @@ [subpasses |-> [i \in 1..pass.subpassCount |-> json_value_subpass(pass.pSubpasses[i])]]

json_value_specialization_info(info) ==
    [dataSize |-> info.dataSize,
     data |-> encode_base64(info.pData, info.dataSize),
     mapEntries |->
         [i \in 1..info.mapEntryCount |->
             [offset |-> info.pMapEntries[i].offset,
              size |-> info.pMapEntries[i].size,
              constantID |-> info.pMapEntries[i].constantID]]]

json_value_stage(s) ==
    [flags |-> s.flags,
     stage |-> s.stage,
     module |-> uint64_string(s.module),
     name |-> s.pName]
    @@ Optional(s.pSpecializationInfo # NULL,
                [specializationInfo |->
                    json_value_specialization_info(s.pSpecializationInfo[1])])

json_value_compute_pipeline(pipe) ==
    [flags |-> pipe.flags,
     layout |-> uint64_string(pipe.layout),
     basePipelineHandle |-> uint64_string(pipe.basePipelineHandle),
     basePipelineIndex |-> pipe.basePipelineIndex,
     stage |-> json_value_stage(pipe.stage)]

json_value_stencil(state) ==
    [compareOp |-> state.compareOp, writeMask |-> state.writeMask,
     reference |-> state.reference, compareMask |-> state.compareMask,
     passOp |-> state.passOp, failOp |-> state.failOp, depthFailOp |-> state.depthFailOp]

json_value_dynamic_state(dyn) ==
    [flags |-> dyn.flags,
     dynamicState |-> [i \in 1..dyn.dynamicStateCount |-> dyn.pDynamicStates[i]]]

json_value_multisample_state(ms) ==
    [flags |-> ms.flags,
     rasterizationSamples |-> ms.rasterizationSamples,
     sampleShadingEnable |-> ms.sampleShadingEnable,
     minSampleShading |-> Float(ms.minSampleShading),
     alphaToOneEnable |-> ms.alphaToOneEnable,
     alphaToCoverageEnable |-> ms.alphaToCoverageEnable]
    @@ Optional(ms.pSampleMask # NULL,
                [sampleMask |-> [i \in 1..((ms.rasterizationSamples + 31) \div 32) |->
                                    ms.pSampleMask[1][i]]])

json_value_vertex_input_state(vi) ==
    [flags |-> vi.flags,
     attributes |->
         [i \in 1..vi.vertexAttributeDescriptionCount |->
             [location |-> vi.pVertexAttributeDescriptions[i].location,
              binding |-> vi.pVertexAttributeDescriptions[i].binding,
              offset |-> vi.pVertexAttributeDescriptions[i].offset,
              format |-> vi.pVertexAttributeDescriptions[i].format]],
     bindings |->
         [i \in 1..vi.vertexBindingDescriptionCount |->
             [binding |-> vi.pVertexBindingDescriptions[i].binding,
              stride |-> vi.pVertexBindingDescriptions[i].stride,
              inputRate |-> vi.pVertexBindingDescriptions[i].inputRate]]]

json_value_rasterization_state(rs) ==
    [flags |-> rs.flags,
     depthBiasConstantFactor |-> Float(rs.depthBiasConstantFactor),
     depthBiasSlopeFactor |-> Float(rs.depthBiasSlopeFactor),
     depthBiasClamp |-> Float(rs.depthBiasClamp),
     depthBiasEnable |-> rs.depthBiasEnable,
     depthClampEnable |-> rs.depthClampEnable,
     polygonMode |-> rs.polygonMode,
     rasterizerDiscardEnable |-> rs.rasterizerDiscardEnable,
     frontFace |-> rs.frontFace,
     lineWidth |-> Float(rs.lineWidth),
     cullMode |-> rs.cullMode]

json_value_input_assembly_state(ia) ==
    [flags |-> ia.flags, topology |-> ia.topology,
     primitiveRestartEnable |-> ia.primitiveRestartEnable]

json_value_color_blend_state(cb) ==
    [flags |-> cb.flags,
     logicOp |-> cb.logicOp,
     logicOpEnable |-> cb.logicOpEnable,
     blendConstants |-> [i \in 1..4 |-> Float(cb.blendConstants[i])],
     attachments |->
         [i \in 1..cb.attachmentCount |->
             LET a == cb.pAttachments[i]
             IN  [dstAlphaBlendFactor |-> a.dstAlphaBlendFactor,
                  srcAlphaBlendFactor |-> a.srcAlphaBlendFactor,
                  dstColorBlendFactor |-> a.dstColorBlendFactor,
                  srcColorBlendFactor |-> a.srcColorBlendFactor,
                  colorWriteMask |-> a.colorWriteMask,
                  alphaBlendOp |-> a.alphaBlendOp,
                  colorBlendOp |-> a.colorBlendOp,
                  blendEnable |-> a.blendEnable]]]

json_value_viewport_state(vp) ==
    [flags |-> vp.flags, viewportCount |-> vp.viewportCount, scissorCount |-> vp.scissorCount]
    @@ Optional(vp.pViewports # NULL,
                [viewports |->
                    [i \in 1..vp.viewportCount |->
                        [x |-> Float(vp.pViewports[1][i].x),
                         y |-> Float(vp.pViewports[1][i].y),
                         width |-> Float(vp.pViewports[1][i].width),
                         height |-> Float(vp.pViewports[1][i].height),
                         minDepth |-> Float(vp.pViewports[1][i].minDepth),
                         maxDepth |-> Float(vp.pViewports[1][i].maxDepth)]]])
    @@ Optional(vp.pScissors # NULL,
                [scissors |->
                    [i \in 1..vp.scissorCount |->
                        [x |-> vp.pScissors[1][i].offset.x,
                         y |-> vp.pScissors[1][i].offset.y,
                         width |-> vp.pScissors[1][i].extent.width,
                         height |-> vp.pScissors[1][i].extent.height]]])

json_value_depth_stencil_state(ds) ==
    [flags |-> ds.flags,
     stencilTestEnable |-> ds.stencilTestEnable,
     maxDepthBounds |-> Float(ds.maxDepthBounds),
     minDepthBounds |-> Float(ds.minDepthBounds),
     depthBoundsTestEnable |-> ds.depthBoundsTestEnable,
     depthWriteEnable |-> ds.depthWriteEnable,
     depthTestEnable |-> ds.depthTestEnable,
     depthCompareOp |-> ds.depthCompareOp,
     front |-> json_value_stencil(ds.front),
     back |-> json_value_stencil(ds.back)]

\* basePipelineIndex is an int32_t: a negative index is written as a
\* negative number.
json_value_graphics_pipeline(pipe) ==
    [flags |-> pipe.flags,
     basePipelineHandle |-> uint64_string(pipe.basePipelineHandle),
     basePipelineIndex |-> pipe.basePipelineIndex,
     layout |-> uint64_string(pipe.layout),
     renderPass |-> uint64_string(pipe.renderPass),
     subpass |-> pipe.subpass]
    @@ Optional(pipe.pTessellationState # NULL,
                [tessellationState |->
                    [flags |-> pipe.pTessellationState[1].flags,
                     patchControlPoints |-> pipe.pTessellationState[1].patchControlPoints]])
    @@ Optional(pipe.pDynamicState # NULL,
                [dynamicState |-> json_value_dynamic_state(pipe.pDynamicState[1])])
    @@ Optional(pipe.pMultisampleState # NULL,
                [multisampleState |-> json_value_multisample_state(pipe.pMultisampleState[1])])
    @@ Optional(pipe.pVertexInputState # NULL,
                [vertexInputState |-> json_value_vertex_input_state(pipe.pVertexInputState[1])])
    @@ Optional(pipe.pRasterizationState # NULL,
                [rasterizationState |->
                    json_value_rasterization_state(pipe.pRasterizationState[1])])
    @@ Optional(pipe.pInputAssemblyState # NULL,
                [inputAssemblyState |->
                    json_value_input_assembly_state(pipe.pInputAssemblyState[1])])
    @@ Optional(pipe.pColorBlendState # NULL,
                [colorBlendState |-> json_value_color_blend_state(pipe.pColorBlendState[1])])
    @@ Optional(pipe.pViewportState # NULL,
                [viewportState |-> json_value_viewport_state(pipe.pViewportState[1])])
    @@ Optional(pipe.pDepthStencilState # NULL,
                [depthStencilState |->
                    json_value_depth_stencil_state(pipe.pDepthStencilState[1])])
    @@ [stages |-> [i \in 1..pipe.stageCount |-> json_value_stage(pipe.pStages[i])]]

json_value(info) ==
    CASE info.sType = VK_STRUCTURE_TYPE_SAMPLER_CREATE_INFO -> json_value_sampler(info)
      [] info.sType = VK_STRUCTURE_TYPE_DESCRIPTOR_SET_LAYOUT_CREATE_INFO ->
             json_value_descriptor_set_layout(info)
      [] info.sType = VK_STRUCTURE_TYPE_PIPELINE_LAYOUT_CREATE_INFO ->
             json_value_pipeline_layout(info)
      [] info.sType = VK_STRUCTURE_TYPE_RENDER_PASS_CREATE_INFO -> json_value_render_pass(info)
      [] info.sType = VK_STRUCTURE_TYPE_SHADER_MODULE_CREATE_INFO ->
             json_value_shader_module(info)
      [] info.sType = VK_STRUCTURE_TYPE_GRAPHICS_PIPELINE_CREATE_INFO ->
             json_value_graphics_pipeline(info)
      [] info.sType = VK_STRUCTURE_TYPE_COMPUTE_PIPELINE_CREATE_INFO ->
             json_value_compute_pipeline(info)

(***************************************************************************)
(* StateRecorder::serialize and the per-object serializers.  A store is a  *)
(* function from hashes to descriptors whose reference fields hold the     *)
(* hashes the remap wrote; a document is a record of its members.          *)
(***************************************************************************)
\* serialize_obj: the store entry of obj if there is one, added to json_map
\* unless json_map has a member of that name.
serialize_obj(obj, ci_map, json_map) ==
    IF obj \in DOMAIN ci_map
    THEN Bind(ci_map[obj], LAMBDA create_info :
            [ptr |-> <<create_info>>,
             json_map |-> IF HasName(json_map, uint64_string(obj)) THEN json_map
                          ELSE Append(json_map,
                                      Member(uint64_string(obj), json_value(create_info)))])
    ELSE [ptr |-> NULL, json_map |-> json_map]

\* The loop over k of the per-pipeline serializers.
RECURSIVE serialize_immutable_samplers(_, _, _, _)
serialize_immutable_samplers(impl, binding, k, samplers) ==
    IF k > binding.descriptorCount THEN samplers
    ELSE serialize_immutable_samplers(impl, binding, k + 1,
             serialize_obj(binding.pImmutableSamplers[1][k], impl.samplers, samplers).json_map)

\* The loop over j.
RECURSIVE serialize_bindings(_, _, _, _)
serialize_bindings(impl, set_layout, j, samplers) ==
    IF j > set_layout.bindingCount THEN samplers
    ELSE LET binding == set_layout.pBindings[j]
         IN  serialize_bindings(impl, set_layout, j + 1,
                 IF binding.pImmutableSamplers # NULL /\ IsSamplerType(binding.descriptorType)
                 THEN serialize_immutable_samplers(impl, binding, 1, samplers)
                 ELSE samplers)

\* The loop over i: the set layouts of a pipeline layout and their samplers.
RECURSIVE serialize_set_layouts(_, _, _, _)
serialize_set_layouts(impl, pipeline_layout, i, acc) ==
    IF i > pipeline_layout.setLayoutCount THEN acc
    ELSE LET set_layout == serialize_obj(pipeline_layout.pSetLayouts[i],
                                         impl.descriptor_sets, acc.set_layouts)
         IN  serialize_set_layouts(impl, pipeline_layout, i + 1,
                 [set_layouts |-> set_layout.json_map,
                  samplers |-> IF set_layout.ptr # NULL
                               THEN serialize_bindings(impl, set_layout.ptr[1], 1, acc.samplers)
                               ELSE acc.samplers])

\* The pipeline layout of a pipeline with all it refers to.
serialize_pipeline_layout(impl, layout) ==
    LET pipeline_layout == serialize_obj(layout, impl.pipeline_layouts, <<>>)
        rest == IF pipeline_layout.ptr # NULL
                THEN serialize_set_layouts(impl, pipeline_layout.ptr[1], 1,
                                           [set_layouts |-> <<>>, samplers |-> <<>>])
                ELSE [set_layouts |-> <<>>, samplers |-> <<>>]
    IN  [pipeline_layouts |-> pipeline_layout.json_map,
         set_layouts |-> rest.set_layouts, samplers |-> rest.samplers]

\* The local shader_modules stays empty and is not added to the document.
serialize_graphics_pipeline(impl, hash) ==
    LET pipe == serialize_obj(hash, impl.graphics_pipelines, <<>>)
        closure == IF pipe.ptr # NULL
                   THEN serialize_pipeline_layout(impl, pipe.ptr[1].layout)
                   ELSE [pipeline_layouts |-> <<>>, set_layouts |-> <<>>, samplers |-> <<>>]
        render_passes == IF pipe.ptr # NULL
                         THEN serialize_obj(pipe.ptr[1].renderPass, impl.render_passes,
                                            <<>>).json_map
                         ELSE <<>>
    IN  [version |-> FOSSILIZE_FORMAT_VERSION,
         samplers |-> closure.samplers,
         setLayouts |-> closure.set_layouts,
         pipelineLayouts |-> closure.pipeline_layouts,
         renderPasses |-> render_passes,
         graphicsPipelines |-> pipe.json_map]

serialize_compute_pipeline(impl, hash) ==
    LET pipe == serialize_obj(hash, impl.compute_pipelines, <<>>)
        closure == IF pipe.ptr # NULL
                   THEN serialize_pipeline_layout(impl, pipe.ptr[1].layout)
                   ELSE [pipeline_layouts |-> <<>>, set_layouts |-> <<>>, samplers |-> <<>>]
    IN  [version |-> FOSSILIZE_FORMAT_VERSION,
         samplers |-> closure.samplers,
         setLayouts |-> closure.set_layouts,
         pipelineLayouts |-> closure.pipeline_layouts,
         computePipelines |-> pipe.json_map]

\* The if without braces governs the AddMember of the version.
serialize_shader_module(impl, hash) ==
    LET pipe == serialize_obj(hash, impl.shader_modules, <<>>)
    IN  Optional(pipe.ptr # NULL, [version |-> FOSSILIZE_FORMAT_VERSION])
        @@ [shaderModules |-> pipe.json_map]

\* The orders in which a range-for may visit the entries of an unordered_map.
Orderings(ci_map) ==
    { order \in [1..Cardinality(DOMAIN ci_map) -> DOMAIN ci_map] :
          \A i, j \in DOMAIN order : order[i] = order[j] => i = j }

serialize_map(ci_map, order) ==
    [i \in DOMAIN order |-> Member(uint64_string(order[i]), json_value(ci_map[order[i]]))]

\* serialize(), the stores visited in the orders order gives.
serialize(impl, order) ==
    [version |-> FOSSILIZE_FORMAT_VERSION,
     samplers |-> serialize_map(impl.samplers, order.samplers),
     setLayouts |-> serialize_map(impl.descriptor_sets, order.descriptor_sets),
     pipelineLayouts |-> serialize_map(impl.pipeline_layouts, order.pipeline_layouts),
     shaderModules |-> serialize_map(impl.shader_modules, order.shader_modules),
     renderPasses |-> serialize_map(impl.render_passes, order.render_passes),
     computePipelines |-> serialize_map(impl.compute_pipelines, order.compute_pipelines),
     graphicsPipelines |-> serialize_map(impl.graphics_pipelines, order.graphics_pipelines)]

\* write_buffer: the file <hash>.json of the serialization path receives
\* the bytes; the path is taken to be writable.
Filename(hash) == uint64_string(hash) \o <<46, 106, 115, 111, 110>>
write_buffer(files, hash, bytes) == Assign(files, Filename(hash), bytes)

\* Whether the case stores the descriptor: the store has no entry for the
\* hash and the remap returns.
Stores(impl, handle, info, hash) ==
    /\ hash \notin DOMAIN impl[store_of(info.sType)]
    /\ remap_ci([impl EXCEPT ![to_index(info.sType)] = Assign(@, handle, hash)],
                info).outcome = "return"

\* Whether the remap of the case throws: the store has no entry for the hash
\* and a handle of the descriptor is in no table.
Remap_throws(impl, handle, info, hash) ==
    /\ hash \notin DOMAIN impl[store_of(info.sType)]
    /\ remap_ci([impl EXCEPT ![to_index(info.sType)] = Assign(@, handle, hash)],
                info).outcome # "return"

\* The files after the case: the shader-module and the two pipeline cases
\* write the per-object document of a descriptor they have just stored.
record_case_files(impl, files, handle, info, hash) ==
    Bind(record_case(impl, handle, info, hash), LAMBDA stored :
        IF ~Stores(impl, handle, info, hash) THEN files
        ELSE CASE info.sType = VK_STRUCTURE_TYPE_SHADER_MODULE_CREATE_INFO ->
                      write_buffer(files, hash, serialize_shader_module(stored, hash))
               [] info.sType = VK_STRUCTURE_TYPE_GRAPHICS_PIPELINE_CREATE_INFO ->
                      write_buffer(files, hash, serialize_graphics_pipeline(stored, hash))
               [] info.sType = VK_STRUCTURE_TYPE_COMPUTE_PIPELINE_CREATE_INFO ->
                      write_buffer(files, hash, serialize_compute_pipeline(stored, hash))
               [] OTHER -> files)

\* The files the case may leave: the document is made of the descriptors as
\* they read now.
Written(memory, impl, files, worker) ==
    { record_case_files(ViewImpl(memory, impl, reused), files, worker.handle,
                        View(memory, worker.create_info[1], reused), worker.hash) :
        reused \in Reuse(memory) }

(***************************************************************************)
(* The recorder at run time.                                               *)
(*   impl         the stores and the handle->hash tables of Impl           *)
(*   record_queue the work items, the oldest first                         *)
(*   worker       the worker thread: where it is in record_task, the item  *)
(*                it popped and the hash it computed                       *)
(*   pc           each host thread: idle, inside a record_<kind> call      *)
(*                before its push, or inside the find of a                 *)
(*                get_hash_for_<kind> call; a call that throws leaves its  *)
(*                thread idle and everything else as it was                *)
(*   files        the files of the serialization path, by name             *)
(*   crashed      the process ended on an undefined operation              *)
(* and, for the properties, the objects in the order of their pushes and   *)
(* of their pops, and the objects whose call began after the calls of all  *)
(* the objects they refer to had returned (themselves being such objects). *)
(***************************************************************************)
VARIABLES impl, record_queue, worker, pc, files, crashed, pushed, popped, ordered

\* The pair of descriptors a hash function is applied to (see Hashing below).
VARIABLES subject

\* The replay (see Replay below):
\*   buffer    the document the host holds from a serialize call
\*   replayer  the replayed_<kind> maps of StateReplayer::Impl
\*   iface     the calls the replayer has made on the creator and the resolver
\*   resolver  the resolver the host passed to parse
\*   status    whether parse was called and how it ended
VARIABLES buffer, replayer, iface, resolver, status

\* The Recorder object: alive, inside the join of its destructor, destroyed.
VARIABLES lifetime

\* The memory of the callers: the state of the arrays of each descriptor.
VARIABLES memory

others == <<subject, buffer, replayer, iface, resolver, status, lifetime, memory>>

vars == <<impl, record_queue, worker, pc, files, crashed, pushed, popped, ordered, others>>

Threads == {1, 2}
MaxCalls == 3

Idle == [op |-> "idle", obj |-> 0, ext |-> FALSE]

EmptyImpl ==
    [samplers |-> <<>>, descriptor_sets |-> <<>>, pipeline_layouts |-> <<>>,
     shader_modules |-> <<>>, render_passes |-> <<>>, compute_pipelines |-> <<>>,
     graphics_pipelines |-> <<>>,
     sampler_to_index |-> <<>>, descriptor_set_layout_to_index |-> <<>>,
     pipeline_layout_to_index |-> <<>>, shader_module_to_index |-> <<>>,
     render_pass_to_index |-> <<>>, compute_pipeline_to_index |-> <<>>,
     graphics_pipeline_to_index |-> <<>>]

\* StateRecorder::StateRecorder: empty maps, the worker started.
InitRecorder ==
    /\ impl = EmptyImpl
    /\ record_queue = <<>>
    /\ worker = [pc |-> "wait", handle |-> VK_NULL_HANDLE, create_info |-> NULL, hash |-> <<>>]
    /\ pc = [t \in Threads |-> Idle]
    /\ files = <<>>
    /\ crashed = FALSE
    /\ pushed = <<>>
    /\ popped = <<>>
    /\ ordered = {}
    /\ lifetime = "alive"
    /\ memory = [o \in CallerObjects |-> "intact"]

\* StateReplayer::StateReplayer: empty maps.
EmptyReplayer ==
    [replayed_samplers |-> <<>>, replayed_descriptor_set_layouts |-> <<>>,
     replayed_pipeline_layouts |-> <<>>, replayed_shader_modules |-> <<>>,
     replayed_render_passes |-> <<>>, replayed_compute_pipelines |-> <<>>,
     replayed_graphics_pipelines |-> <<>>]

InitReplayer ==
    /\ buffer = NULL
    /\ replayer = EmptyReplayer
    /\ iface = <<>>
    /\ resolver = "none"
    /\ status = "none"

Init ==
    /\ InitRecorder
    /\ InitReplayer
    /\ subject = NULL

InFlight == { pc[t].obj : t \in { u \in Threads : pc[u].op = "record" } }
Ended == \E i \in DOMAIN pushed : pushed[i] = 0

\* The descriptor the host passes for object o, with or without an extension
\* chain in its pNext.
CreateInfo(o, ext) == [Objects[o] EXCEPT !.pNext = IF ext THEN Extension ELSE NULL]

ObjectOf(handle) == CHOOSE o \in ObjectIds : Handle(o) = handle

Returned(o) == \E i \in DOMAIN pushed : pushed[i] = o

\* A host thread enters record_<kind>(Handle(o), create_info): the test of
\* pNext where the function has one, then the wait for record_lock.
Call(t, o, ext, sType, checks_pNext) ==
    /\ ~crashed /\ ~Ended
    /\ pc[t].op = "idle"
    /\ Objects[o].sType = sType
    /\ ~Returned(o) /\ o \notin InFlight
    /\ Len(pushed) + Cardinality(InFlight) < MaxCalls
    /\ IF checks_pNext /\ CreateInfo(o, ext).pNext # NULL
       THEN UNCHANGED <<pc, ordered>>
       ELSE /\ pc' = [pc EXCEPT ![t] = [op |-> "record", obj |-> o, ext |-> ext]]
            /\ ordered' = IF \A h \in References(CreateInfo(o, ext)) :
                                 /\ \E r \in ObjectIds : Handle(r) = h
                                 /\ Returned(ObjectOf(h))
                                 /\ ObjectOf(h) \in ordered
                          THEN ordered \cup {o} ELSE ordered
    /\ UNCHANGED <<impl, record_queue, worker, files, crashed, pushed, popped>>
    /\ UNCHANGED others

record_descriptor_set_layout(t, o, ext) ==
    Call(t, o, ext, VK_STRUCTURE_TYPE_DESCRIPTOR_SET_LAYOUT_CREATE_INFO, FALSE)

record_pipeline_layout(t, o, ext) ==
    Call(t, o, ext, VK_STRUCTURE_TYPE_PIPELINE_LAYOUT_CREATE_INFO, FALSE)

record_sampler(t, o, ext) ==
    Call(t, o, ext, VK_STRUCTURE_TYPE_SAMPLER_CREATE_INFO, TRUE)

record_graphics_pipeline(t, o, ext) ==
    Call(t, o, ext, VK_STRUCTURE_TYPE_GRAPHICS_PIPELINE_CREATE_INFO, TRUE)

record_compute_pipeline(t, o, ext) ==
    Call(t, o, ext, VK_STRUCTURE_TYPE_COMPUTE_PIPELINE_CREATE_INFO, TRUE)

record_render_pass(t, o, ext) ==
    Call(t, o, ext, VK_STRUCTURE_TYPE_RENDER_PASS_CREATE_INFO, TRUE)

record_shader_module(t, o, ext) ==
    Call(t, o, ext, VK_STRUCTURE_TYPE_SHADER_MODULE_CREATE_INFO, TRUE)

\* A host thread enters get_hash_for_<kind>(Handle(o)) for an object it has
\* recorded: the find on the handle->hash table of the kind, no lock held.
get_hash_for_call(t, o) ==
    /\ ~crashed /\ ~Ended
    /\ pc[t].op = "idle"
    /\ Returned(o)
    /\ pc' = [pc EXCEPT ![t] = [op |-> "get_hash", obj |-> o, ext |-> FALSE]]
    /\ UNCHANGED <<impl, record_queue, worker, files, crashed, pushed, popped, ordered>>
    /\ UNCHANGED others

\* A find in progress on the table whose entry the worker is writing.
Race ==
    \E t \in Threads :
       /\ pc[t].op = "get_hash"
       /\ worker.pc = "index"
       /\ worker.create_info[1].sType = Objects[pc[t].obj].sType

\* The find returns and the call with it, with the hash or the exception.
\* A find that overlaps a write of its table is a data race: the process
\* goes on or ends.
get_hash_for_return(t) ==
    /\ ~crashed
    /\ pc[t].op = "get_hash"
    /\ pc' = [pc EXCEPT ![t] = Idle]
    /\ crashed' \in IF Race THEN BOOLEAN ELSE {FALSE}
    /\ UNCHANGED <<impl, record_queue, worker, files, pushed, popped, ordered>>
    /\ UNCHANGED others

\* The rest of record_<kind>, under record_lock: the copy, the push and the
\* notify, then the return.  A throwing copy pushes nothing; a copy that
\* dereferences a null pointer ends the process or goes on either way.
record_push(t) ==
    /\ ~crashed
    /\ pc[t].op = "record"
    /\ LET o == pc[t].obj
           copied == copy_ci(CreateInfo(o, pc[t].ext))
       IN  \E outcome \in IF copied.outcome = "undefined"
                          THEN {"crash", "throw"}
                                   \cup (IF copied.value # NULL THEN {"return"} ELSE {})
                          ELSE {copied.outcome} :
              /\ crashed' = (outcome = "crash")
              /\ pc' = [pc EXCEPT ![t] = Idle]
              /\ record_queue' = IF outcome = "return"
                                 THEN Append(record_queue,
                                        [handle |-> Handle(o), create_info |-> copied.value])
                                 ELSE record_queue
              /\ pushed' = IF outcome = "return" THEN Append(pushed, o) ELSE pushed
    /\ UNCHANGED <<impl, worker, files, popped, ordered>>
    /\ UNCHANGED others

\* record_end, as the destructor calls it once no call is in progress: the
\* empty work item.
record_end(t) ==
    /\ ~crashed /\ ~Ended
    /\ \A u \in Threads : pc[u].op = "idle"
    /\ record_queue' = Append(record_queue, [handle |-> VK_NULL_HANDLE, create_info |-> NULL])
    /\ pushed' = Append(pushed, 0)
    /\ pc' = [pc EXCEPT ![t] = Idle]
    /\ UNCHANGED <<impl, worker, files, crashed, popped, ordered>>
    /\ UNCHANGED others

\* A variant of front that takes the newest item: C3 fails with it.
front_back(queue) == queue[Len(queue)]

\* std::queue<WorkItem>: front() and pop().
front(queue) == Head(queue)
pop(queue) == Tail(queue)

\* record_task, from the wait to the test of the popped item: the oldest item
\* is popped under record_lock; the empty item ends the thread.
record_task_pop ==
    /\ ~crashed
    /\ worker.pc = "wait"
    /\ record_queue # <<>>
    /\ LET record_item == front(record_queue) IN
       /\ worker' = [pc |-> IF record_item.create_info = NULL THEN "return" ELSE "hash",
                     handle |-> record_item.handle,
                     create_info |-> record_item.create_info,
                     hash |-> <<>>]
       /\ popped' = Append(popped, IF record_item.create_info = NULL THEN 0
                                   ELSE ObjectOf(record_item.handle))
    /\ record_queue' = pop(record_queue)
    /\ UNCHANGED <<impl, pc, files, crashed, pushed, ordered>>
    /\ UNCHANGED others

\* The hashes the hash function may give for the queued copy: it reads the
\* arrays the copy retains where they are now.
Hashes(info) ==
    { compute_hash(impl, View(memory, info, reused)) : reused \in Reuse(memory) }

\* A variant of caught in which the hash function never throws: C21 fails
\* with it.
caught_never(hash) == FALSE

\* The exception of a get_hash_for_<kind> call leaves the case and reaches
\* the catch at the end of the loop body.
caught(hash) == Throws(hash)

\* A variant of Caught in which the exception ends the thread: C22 fails
\* with it.
Caught_returns(w) == [w EXCEPT !.pc = "return"]

\* The catch at the end of the loop body logs the exception; the loop goes
\* on with the wait for the next item.
Caught(w) == [w EXCEPT !.pc = "wait"]

\* record_task, the hash of the popped descriptor, outside the lock; an
\* exception is caught and logged and the loop goes on with the next item.
record_task_hash ==
    /\ ~crashed
    /\ worker.pc = "hash"
    /\ \E hashes \in {Hashes(worker.create_info[1])} :
          /\ \E hash \in hashes :
                worker' = IF caught(hash)
                          THEN Caught(worker)
                          ELSE [worker EXCEPT !.pc = "index", !.hash = hash]
          /\ crashed' \in IF Cardinality(hashes) > 1 THEN BOOLEAN ELSE {FALSE}
    /\ UNCHANGED <<impl, record_queue, pc, files, pushed, popped, ordered>>
    /\ UNCHANGED others

\* record_task, the rest of the case: the write of the handle->hash entry,
\* of the store and of the file, outside record_lock.
record_task_store ==
    /\ ~crashed
    /\ worker.pc = "index"
    /\ impl' = record_case(impl, worker.handle, worker.create_info[1], worker.hash)
    /\ \E written \in {Written(memory, impl, files, worker)} :
          /\ files' \in written
          /\ crashed' \in IF Race \/ Cardinality(written) > 1 THEN BOOLEAN ELSE {FALSE}
    /\ worker' = IF Remap_throws(impl, worker.handle, worker.create_info[1], worker.hash)
                 THEN Caught(worker)
                 ELSE [worker EXCEPT !.pc = "wait"]
    /\ UNCHANGED <<record_queue, pc, pushed, popped, ordered>>
    /\ UNCHANGED others

\* The host threads record; the worker runs.
Next ==
    \/ \E t \in Threads, o \in HostObjects, ext \in BOOLEAN :
          \/ record_descriptor_set_layout(t, o, ext)
          \/ record_pipeline_layout(t, o, ext)
          \/ record_sampler(t, o, ext)
          \/ record_graphics_pipeline(t, o, ext)
          \/ record_compute_pipeline(t, o, ext)
          \/ record_render_pass(t, o, ext)
          \/ record_shader_module(t, o, ext)
    \/ \E t \in Threads : record_push(t)
    \/ \E t \in Threads : record_end(t)
    \/ record_task_pop
    \/ record_task_hash
    \/ record_task_store

Spec == Init /\ [][Next]_vars

\* The host threads also ask for the hashes of the objects they recorded.
NextRead ==
    \/ Next
    \/ \E t \in Threads, o \in HostObjects : get_hash_for_call(t, o)
    \/ \E t \in Threads : get_hash_for_return(t)

SpecRead == Init /\ [][NextRead]_vars

(***************************************************************************)
(* Properties of the recorder.                                             *)
(***************************************************************************)
Kinds ==
    {VK_STRUCTURE_TYPE_SAMPLER_CREATE_INFO,
     VK_STRUCTURE_TYPE_DESCRIPTOR_SET_LAYOUT_CREATE_INFO,
     VK_STRUCTURE_TYPE_PIPELINE_LAYOUT_CREATE_INFO,
     VK_STRUCTURE_TYPE_RENDER_PASS_CREATE_INFO,
     VK_STRUCTURE_TYPE_SHADER_MODULE_CREATE_INFO,
     VK_STRUCTURE_TYPE_GRAPHICS_PIPELINE_CREATE_INFO,
     VK_STRUCTURE_TYPE_COMPUTE_PIPELINE_CREATE_INFO}

\* No call in progress, nothing queued, the worker waiting or gone.
Quiescent ==
    /\ ~crashed
    /\ record_queue = <<>>
    /\ worker.pc \in {"wait", "return"}
    /\ \A t \in Threads : pc[t].op = "idle"

\* The objects whose record_<kind> call returned, each submitted after the
\* calls of the objects it refers to had returned.
Submitted == { o \in ObjectIds : Returned(o) /\ o \in ordered }

\* The hash of the content object o was submitted with.
ContentHash(o) == compute_hash(impl, Objects[o])

\* C1: once the worker has processed all queued items, the store of each
\* kind holds exactly one entry for each distinct content hash submitted and
\* no other entry, and every submitted handle maps in the handle->hash table
\* of its kind to the hash of the content it was submitted with.
C1_Deduplication ==
    Quiescent =>
       /\ \A o \in Submitted :
             /\ Handle(o) \in DOMAIN impl[to_index(Objects[o].sType)]
             /\ impl[to_index(Objects[o].sType)][Handle(o)] = ContentHash(o)
       /\ \A sType \in Kinds :
             /\ { ContentHash(o) : o \in { s \in Submitted : Objects[s].sType = sType } }
                   \subseteq DOMAIN impl[store_of(sType)]
             /\ DOMAIN impl[store_of(sType)]
                   \subseteq { ContentHash(o) :
                                  o \in { s \in ObjectIds :
                                             Returned(s) /\ Objects[s].sType = sType } }

C3_Fifo ==
    /\ Len(popped) <= Len(pushed)
    /\ \A i \in DOMAIN popped : popped[i] = pushed[i]
    /\ worker.pc \in {"hash", "index"} =>
          /\ popped # <<>>
          /\ worker.handle = Handle(popped[Len(popped)])

\* One item popped while two wait in the queue.
C3_Witness ==
    /\ Len(popped) >= 1
    /\ Len(record_queue) >= 2

\* C9: no get_hash_for_<kind> call is inside its find on a table while the
\* worker is writing an entry of that table.
C9_NoRacingRead == ~Race

\* C10: no descriptor whose pNext is non-null is pushed onto the work queue,
\* hashed by the worker or stored.
C10_ExtensionChainRejected ==
    /\ \A i \in DOMAIN record_queue :
          record_queue[i].create_info # NULL => record_queue[i].create_info[1].pNext = NULL
    /\ worker.create_info # NULL => worker.create_info[1].pNext = NULL
    /\ \A sType \in Kinds : \A h \in DOMAIN impl[store_of(sType)] :
          impl[store_of(sType)][h].pNext = NULL

(***************************************************************************)
(* Hashing.  The hash functions applied to pairs of descriptors: subject   *)
(* holds the two descriptors a and b, the recorder whose tables the hash   *)
(* functions read, what distinguishes b from a, and the two hashes once    *)
(* they are computed.                                                      *)
(***************************************************************************)
\* record_<kind>(handle, info) and the worker's processing of the item, the
\* queue being empty before the call.
Recorded(state, handle, info) ==
    LET copied == copy_ci(info)
        hash == compute_hash(state, copied.value[1])
    IN  IF copied.outcome # "return" \/ Throws(hash) THEN state
        ELSE record_case(state, handle, copied.value[1], hash)

RECURSIVE RecordedAll(_, _)
RecordedAll(state, os) ==
    IF os = <<>> THEN state
    ELSE RecordedAll(Recorded(state, Handle(Head(os)), Objects[Head(os)]), Tail(os))

\* The recorder after the host objects were recorded one after the other.
Fixture == RecordedAll(EmptyImpl, <<1, 2, 3, 4, 5, 6, 7, 8, 9>>)

DepthStencilState(depthBoundsTestEnable, stencilTestEnable, v) ==
    LET face == [failOp |-> 0, passOp |-> 1, depthFailOp |-> 0, compareOp |-> 7,
                 compareMask |-> v.compareMask, writeMask |-> v.writeMask,
                 reference |-> v.reference]
    IN  [pNext |-> NULL, flags |-> 0, depthTestEnable |-> 1, depthWriteEnable |-> 1,
         depthCompareOp |-> 1, depthBoundsTestEnable |-> depthBoundsTestEnable,
         stencilTestEnable |-> stencilTestEnable, front |-> face, back |-> face,
         minDepthBounds |-> v.minDepthBounds, maxDepthBounds |-> v.maxDepthBounds]

DynamicState(states) ==
    [pNext |-> NULL, flags |-> 0, dynamicStateCount |-> Len(states), pDynamicStates |-> states]

\* The fields the conditional-field rule speaks of, and their values in a.
Values ==
    [minDepthBounds |-> 1, compareMask |-> 1, writeMask |-> 1, reference |-> 1,
     depthBiasClamp |-> 1, lineWidth |-> 1, viewport |-> 1, scissor |-> 1,
     blendConstant |-> 1, colorWriteMask |-> 1, maxDepthBounds |-> 1,
     depthBiasSlopeFactor |-> 1, depthBiasConstantFactor |-> 1,
     colorBlendOp |-> 1, dstColorBlendFactor |-> 1, alphaBlendOp |-> 1]

\* A graphics pipeline with the dynamic states and the enables of condition
\* c and the values v in the fields of the rule.
SubjectPipeline(c, v) ==
    [Objects[8] EXCEPT
        !.pDynamicState = IF c.dynamic = <<>> THEN NULL ELSE <<DynamicState(c.dynamic)>>,
        !.pDepthStencilState =
            <<DepthStencilState(c.depthBoundsTestEnable, c.stencilTestEnable, v)>>,
        !.pRasterizationState =
            <<[RasterizationState(c.depthBiasEnable, v.depthBiasClamp, v.lineWidth) EXCEPT
                  !.depthBiasSlopeFactor = v.depthBiasSlopeFactor,
                  !.depthBiasConstantFactor = v.depthBiasConstantFactor]>>,
        !.pViewportState = <<ViewportState(v.viewport, v.scissor)>>,
        !.pColorBlendState =
            <<ColorBlendState(
                  [BlendAttachment(c.blendEnable, c.factor, v.colorWriteMask) EXCEPT
                      !.colorBlendOp = v.colorBlendOp,
                      !.dstColorBlendFactor = v.dstColorBlendFactor,
                      !.alphaBlendOp = v.alphaBlendOp],
                  v.blendConstant)>>]

Conditions ==
    [dynamic : {<<>>} \cup { <<d>> : d \in 0..8 },
     depthBoundsTestEnable : {0, 1}, stencilTestEnable : {0, 1},
     depthBiasEnable : {0, 1}, blendEnable : {0, 1},
     factor : {1, VK_BLEND_FACTOR_CONSTANT_COLOR}]

Dynamic(c, state) == \E i \in DOMAIN c.dynamic : c.dynamic[i] = state

\* Whether the conditional-field rule designates the field as ignored under
\* condition c.
Ignored(c, field) ==
    CASE field \in {"minDepthBounds", "maxDepthBounds"} ->
             Dynamic(c, VK_DYNAMIC_STATE_DEPTH_BOUNDS) \/ c.depthBoundsTestEnable = 0
      [] field = "compareMask" ->
             Dynamic(c, VK_DYNAMIC_STATE_STENCIL_COMPARE_MASK) \/ c.stencilTestEnable = 0
      [] field = "writeMask" ->
             Dynamic(c, VK_DYNAMIC_STATE_STENCIL_WRITE_MASK) \/ c.stencilTestEnable = 0
      [] field = "reference" ->
             Dynamic(c, VK_DYNAMIC_STATE_STENCIL_REFERENCE) \/ c.stencilTestEnable = 0
      [] field \in {"depthBiasClamp", "depthBiasSlopeFactor", "depthBiasConstantFactor"} ->
             Dynamic(c, VK_DYNAMIC_STATE_DEPTH_BIAS) \/ c.depthBiasEnable = 0
      [] field = "lineWidth" -> Dynamic(c, VK_DYNAMIC_STATE_LINE_WIDTH)
      [] field = "viewport" -> Dynamic(c, VK_DYNAMIC_STATE_VIEWPORT)
      [] field = "scissor" -> Dynamic(c, VK_DYNAMIC_STATE_SCISSOR)
      [] field = "blendConstant" ->
             \/ Dynamic(c, VK_DYNAMIC_STATE_BLEND_CONSTANTS)
             \/ ~(c.blendEnable # 0 /\ IsConstantFactor(c.factor))
      [] field \in {"colorWriteMask", "colorBlendOp", "dstColorBlendFactor", "alphaBlendOp"} ->
             c.blendEnable = 0

\* Two pipelines that differ in one field of the rule.
FieldSubjects ==
    { [family |-> "field", changed |-> field, same |-> Ignored(c, field),
       impl |-> Fixture,
       a |-> SubjectPipeline(c, Values),
       b |-> SubjectPipeline(c, [Values EXCEPT ![field] = 2]),
       hash_a |-> NULL, hash_b |-> NULL] :
      c \in Conditions, field \in DOMAIN Values }

\* The reference fields, the kind each refers to and two contents of the kind.
ReferenceFields ==
    {"immutableSamplers", "setLayouts", "graphics.layout", "graphics.renderPass",
     "graphics.module", "graphics.basePipelineHandle", "compute.layout",
     "compute.module", "compute.basePipelineHandle"}

Contents(field) ==
    CASE field = "immutableSamplers" -> <<SamplerInfo(4), SamplerInfo(5)>>
      [] field = "setLayouts" -> <<Objects[3], [Objects[3] EXCEPT !.flags = 1]>>
      [] field \in {"graphics.layout", "compute.layout"} ->
             <<Objects[4], [Objects[4] EXCEPT !.flags = 1]>>
      [] field = "graphics.renderPass" -> <<Objects[7], [Objects[7] EXCEPT !.flags = 1]>>
      [] field \in {"graphics.module", "compute.module"} ->
             <<Objects[6], ShaderModuleInfo(<<8>>)>>
      [] field = "graphics.basePipelineHandle" ->
             <<Objects[8], [Objects[8] EXCEPT !.subpass = 1]>>
      [] field = "compute.basePipelineHandle" ->
             <<Objects[9], [Objects[9] EXCEPT !.flags = 1]>>

\* A descriptor whose reference field holds handle.
Referrer(field, handle) ==
    CASE field = "immutableSamplers" ->
             SetLayoutInfo(<<Binding(0, VK_DESCRIPTOR_TYPE_SAMPLER, <<<<handle>>>>)>>)
      [] field = "setLayouts" -> PipelineLayoutInfo(<<handle>>)
      [] field = "graphics.layout" -> [Objects[8] EXCEPT !.layout = handle]
      [] field = "graphics.renderPass" -> [Objects[8] EXCEPT !.renderPass = handle]
      [] field = "graphics.module" -> [Objects[8] EXCEPT !.pStages = <<Stage(1, handle, NULL)>>]
      [] field = "graphics.basePipelineHandle" ->
             [Objects[8] EXCEPT !.basePipelineHandle = handle]
      [] field = "compute.layout" -> [Objects[9] EXCEPT !.layout = handle]
      [] field = "compute.module" ->
             [Objects[9] EXCEPT !.stage = Stage(32, handle, <<SpecializationInfo>>)]
      [] field = "compute.basePipelineHandle" ->
             [Objects[9] EXCEPT !.basePipelineHandle = handle]

\* Two descriptors that differ in the handle of one reference field, the two
\* handles of the recorder having been recorded with either content, in
\* either order.
HandleSubjects ==
    { [family |-> "handle", changed |-> field,
       same |-> content[handle_a] = content[handle_b],
       impl |-> LET first == insertion[1]
                    second == insertion[2]
                IN  Recorded(Recorded(Fixture, Handle(20 + first),
                                      Contents(field)[content[first]]),
                             Handle(20 + second), Contents(field)[content[second]]),
       a |-> Referrer(field, Handle(20 + handle_a)),
       b |-> Referrer(field, Handle(20 + handle_b)),
       hash_a |-> NULL, hash_b |-> NULL] :
      field \in ReferenceFields, content \in [{1, 2} -> {1, 2}],
      insertion \in {<<1, 2>>, <<2, 1>>}, handle_a \in {1, 2}, handle_b \in {1, 2} }

\* The nine optional sub-states of a graphics pipeline, in the order the
\* hash takes them.
OptionalStates ==
    <<"pDynamicState", "pDepthStencilState", "pInputAssemblyState", "pRasterizationState",
      "pMultisampleState", "pViewportState", "pVertexInputState", "pColorBlendState",
      "pTessellationState">>

\* The flags of the k-th sub-state of the subjects: a word no other field
\* of the subjects holds.
FlagsOf(k) == 100 + k

\* The k-th sub-state, present.  The dynamic state names the depth bounds,
\* which the depth test of the subjects does not enable: no other
\* sub-state feeds a field more or less for it.
PresentState(k) ==
    LET state ==
          CASE k = 1 -> DynamicState(<<VK_DYNAMIC_STATE_DEPTH_BOUNDS>>)
            [] k = 2 -> DepthStencilState(0, 1, Values)
            [] k = 3 -> InputAssemblyState
            [] k = 4 -> RasterizationState(1, 1, 1)
            [] k = 5 -> MultisampleState
            [] k = 6 -> ViewportState(0, 0)
            [] k = 7 -> VertexInputState
            [] k = 8 -> ColorBlendState(BlendAttachment(1, 1, 15), 0)
            [] k = 9 -> TessellationState
    IN  <<[state EXCEPT !.flags = FlagsOf(k)]>>

\* The graphics pipeline whose sub-states are those of the set present.
OptionalPipeline(present) ==
    [name \in { OptionalStates[k] : k \in DOMAIN OptionalStates } |->
        LET k == CHOOSE i \in DOMAIN OptionalStates : OptionalStates[i] = name
        IN  IF k \in present THEN PresentState(k) ELSE NULL] @@ Objects[8]

\* Two pipelines that differ in one sub-state, which a has and b lacks, the
\* other sub-states being any.
OptionalSubjects ==
    { [family |-> "optional", changed |-> OptionalStates[k], same |-> FALSE,
       impl |-> Fixture,
       a |-> OptionalPipeline(rest \cup {k}),
       b |-> OptionalPipeline(rest \ {k}),
       hash_a |-> NULL, hash_b |-> NULL] :
      k \in DOMAIN OptionalStates, rest \in SUBSET {2, 5, 6, 8} }

InitHash ==
    /\ InitRecorder
    /\ InitReplayer
    /\ subject \in { <<x>> : x \in FieldSubjects \cup HandleSubjects \cup OptionalSubjects }

\* The worker's call of the hash function, on either descriptor.
Hashing_compute_hash ==
    /\ subject[1].hash_a = NULL
    /\ subject' = <<[subject[1] EXCEPT
                       !.hash_a = <<compute_hash(subject[1].impl, subject[1].a)>>,
                       !.hash_b = <<compute_hash(subject[1].impl, subject[1].b)>>]>>
    /\ UNCHANGED <<impl, record_queue, worker, pc, files, crashed, pushed, popped, ordered>>
    /\ UNCHANGED <<buffer, replayer, iface, resolver, status, lifetime, memory>>

NextHash == Hashing_compute_hash

SpecHash == InitHash /\ [][NextHash]_vars

Hashed(family) ==
    /\ subject # NULL
    /\ subject[1].family = family
    /\ subject[1].hash_a # NULL
    /\ ~Throws(subject[1].hash_a[1])

\* C7: two graphics pipelines that differ only in a field the
\* conditional-field rule designates as ignored (depth bounds, stencil
\* compare mask, write mask and reference, depth-bias values, line width,
\* viewport and scissor bodies, blend constants, the fields of an attachment
\* with blending disabled) have the same hash.
C7_IgnoredFieldInvariance ==
    (Hashed("field") /\ subject[1].same) => subject[1].hash_a = subject[1].hash_b

\* The write mask of an attachment with blending disabled differs.
C7_Witness ==
    /\ Hashed("field")
    /\ subject[1].same
    /\ subject[1].changed = "colorWriteMask"
    /\ subject[1].a # subject[1].b

\* C8: two descriptors that differ only in the runtime handle of a reference
\* field, the two handles being mapped to the same content hash, have the
\* same hash, whatever the handles and the order of their insertion.
C8_HandleIndependence ==
    (Hashed("handle") /\ subject[1].same) => subject[1].hash_a = subject[1].hash_b

\* Two distinct handles of the same content.
C8_Witness ==
    /\ Hashed("handle")
    /\ subject[1].same
    /\ subject[1].a # subject[1].b

(***************************************************************************)
(* StateReplayer::Impl: the parsers.  The allocator clears what it hands   *)
(* out (allocate_cleared, allocate_n_cleared), so a member the document    *)
(* lacks leaves a zero count and a null pointer; the two parsers that use  *)
(* allocate_n write every slot or leave it as it was.                      *)
(***************************************************************************)
IfMember(obj, name, value, default) == IF HasMember(obj, name) THEN value ELSE default
Size(obj, name) == IF HasMember(obj, name) THEN Len(obj[name]) ELSE 0

\* operator[] of a replayed_<kind> map for each of the hashes: a hash the
\* map lacks gets an entry holding the null handle.
Subscripted(table, hashes) == table @@ [h \in hashes |-> VK_NULL_HANDLE]

\* The non-zero hashes among the hash strings.
Indices(strings) ==
    { string_to_uint64(strings[i]) : i \in DOMAIN strings } \ {VK_NULL_HANDLE}

\* parse_immutable_samplers: a slot whose hash parses as zero is not written
\* and holds what the memory held.
parse_immutable_samplers(replayed_samplers, samplers, garbage) ==
    [i \in DOMAIN samplers |->
        LET index == string_to_uint64(samplers[i])
        IN  IF index # VK_NULL_HANDLE
            THEN Subscripted(replayed_samplers, {index})[index]
            ELSE garbage]

parse_descriptor_set_bindings(replayed_samplers, bindings, garbage) ==
    [i \in DOMAIN bindings |->
        LET b == bindings[i]
        IN  [binding |-> b.binding,
             descriptorCount |-> b.descriptorCount,
             descriptorType |-> b.descriptorType,
             stageFlags |-> b.stageFlags,
             pImmutableSamplers |->
                 IfMember(b, "immutableSamplers",
                          <<parse_immutable_samplers(replayed_samplers,
                                                     b.immutableSamplers, garbage)>>,
                          NULL)]]

parse_push_constant_ranges(ranges) ==
    [i \in DOMAIN ranges |->
        [stageFlags |-> ranges[i].stageFlags, offset |-> ranges[i].offset,
         size |-> ranges[i].size]]

parse_set_layouts(replayed_descriptor_set_layouts, layouts) ==
    [i \in DOMAIN layouts |->
        LET index == string_to_uint64(layouts[i])
        IN  IF index # VK_NULL_HANDLE
            THEN Subscripted(replayed_descriptor_set_layouts, {index})[index]
            ELSE VK_NULL_HANDLE]

\* The body of the loop of parse_shader_modules.
parse_shader_module(obj) ==
    [sType |-> VK_STRUCTURE_TYPE_SHADER_MODULE_CREATE_INFO, pNext |-> NULL,
     flags |-> obj.flags,
     codeSize |-> obj.codeSize,
     pCode |-> Words(decode_base64(obj.code, obj.codeSize))]

\* The body of the loop of parse_pipeline_layouts.
parse_pipeline_layout(replayed_descriptor_set_layouts, obj) ==
    [sType |-> VK_STRUCTURE_TYPE_PIPELINE_LAYOUT_CREATE_INFO, pNext |-> NULL,
     flags |-> obj.flags,
     pushConstantRangeCount |-> Size(obj, "pushConstantRanges"),
     pPushConstantRanges |->
         IfMember(obj, "pushConstantRanges",
                  parse_push_constant_ranges(obj.pushConstantRanges), <<>>),
     setLayoutCount |-> Size(obj, "setLayouts"),
     pSetLayouts |->
         IfMember(obj, "setLayouts",
                  parse_set_layouts(replayed_descriptor_set_layouts, obj.setLayouts), <<>>)]

\* The body of the loop of parse_descriptor_set_layouts.
parse_descriptor_set_layout(replayed_samplers, obj, garbage) ==
    [sType |-> VK_STRUCTURE_TYPE_DESCRIPTOR_SET_LAYOUT_CREATE_INFO, pNext |-> NULL,
     flags |-> obj.flags,
     bindingCount |-> Size(obj, "bindings"),
     pBindings |->
         IfMember(obj, "bindings",
                  parse_descriptor_set_bindings(replayed_samplers, obj.bindings, garbage),
                  <<>>)]

\* The body of the loop of parse_samplers.
parse_sampler(obj) ==
    [sType |-> VK_STRUCTURE_TYPE_SAMPLER_CREATE_INFO, pNext |-> NULL,
     addressModeU |-> obj.addressModeU,
     addressModeV |-> obj.addressModeV,
     addressModeW |-> obj.addressModeW,
     anisotropyEnable |-> obj.anisotropyEnable,
     borderColor |-> obj.borderColor,
     compareEnable |-> obj.compareEnable,
     compareOp |-> obj.compareOp,
     flags |-> obj.flags,
     magFilter |-> obj.magFilter,
     minFilter |-> obj.minFilter,
     maxAnisotropy |-> GetFloat(obj.maxAnisotropy),
     mipmapMode |-> obj.mipmapMode,
     maxLod |-> GetFloat(obj.maxLod),
     minLod |-> GetFloat(obj.minLod),
     mipLodBias |-> GetFloat(obj.mipLodBias),
     unnormalizedCoordinates |-> obj.unnormalizedCoordinates]

parse_render_pass_attachments(attachments) ==
    [i \in DOMAIN attachments |->
        LET obj == attachments[i]
        IN  [flags |-> obj.flags, finalLayout |-> obj.finalLayout,
             initialLayout |-> obj.initialLayout, format |-> obj.format,
             loadOp |-> obj.loadOp, storeOp |-> obj.storeOp,
             stencilLoadOp |-> obj.stencilLoadOp, stencilStoreOp |-> obj.stencilStoreOp,
             samples |-> obj.samples]]

parse_render_pass_dependencies(dependencies) ==
    [i \in DOMAIN dependencies |->
        LET obj == dependencies[i]
        IN  [dependencyFlags |-> obj.dependencyFlags,
             dstAccessMask |-> obj.dstAccessMask, srcAccessMask |-> obj.srcAccessMask,
             dstStageMask |-> obj.dstStageMask, srcStageMask |-> obj.srcStageMask,
             srcSubpass |-> obj.srcSubpass, dstSubpass |-> obj.dstSubpass]]

parse_attachment(value) == [attachment |-> value.attachment, layout |-> value.layout]

parse_attachments(attachments) ==
    [i \in DOMAIN attachments |-> parse_attachment(attachments[i])]

parse_uints(uints) == [i \in DOMAIN uints |-> uints[i]]

parse_render_pass_subpasses(subpasses) ==
    [i \in DOMAIN subpasses |->
        LET obj == subpasses[i]
        IN  [flags |-> obj.flags,
             pipelineBindPoint |-> obj.pipelineBindPoint,
             pDepthStencilAttachment |->
                 IfMember(obj, "depthStencilAttachment",
                          <<parse_attachment(obj.depthStencilAttachment)>>, NULL),
             pResolveAttachments |->
                 IfMember(obj, "resolveAttachments",
                          <<parse_attachments(obj.resolveAttachments)>>, NULL),
             inputAttachmentCount |-> Size(obj, "inputAttachments"),
             pInputAttachments |->
                 IfMember(obj, "inputAttachments",
                          <<parse_attachments(obj.inputAttachments)>>, NULL),
             colorAttachmentCount |-> Size(obj, "colorAttachments"),
             pColorAttachments |->
                 IfMember(obj, "colorAttachments",
                          <<parse_attachments(obj.colorAttachments)>>, NULL),
             preserveAttachmentCount |-> Size(obj, "preserveAttachments"),
             pPreserveAttachments |->
                 IfMember(obj, "preserveAttachments",
                          <<parse_uints(obj.preserveAttachments)>>, NULL)]]

\* The body of the loop of parse_render_passes.
parse_render_pass(obj) ==
    [sType |-> VK_STRUCTURE_TYPE_RENDER_PASS_CREATE_INFO, pNext |-> NULL,
     flags |-> obj.flags,
     attachmentCount |-> Size(obj, "attachments"),
     pAttachments |->
         IfMember(obj, "attachments",
                  <<parse_render_pass_attachments(obj.attachments)>>, NULL),
     dependencyCount |-> Size(obj, "dependencies"),
     pDependencies |->
         IfMember(obj, "dependencies",
                  <<parse_render_pass_dependencies(obj.dependencies)>>, NULL),
     subpassCount |-> Size(obj, "subpasses"),
     pSubpasses |->
         IfMember(obj, "subpasses", parse_render_pass_subpasses(obj.subpasses), <<>>)]

parse_map_entries(map_entries) ==
    [i \in DOMAIN map_entries |->
        [constantID |-> map_entries[i].constantID, offset |-> map_entries[i].offset,
         size |-> map_entries[i].size]]

parse_specialization_info(spec_info) ==
    [dataSize |-> spec_info.dataSize,
     pData |-> decode_base64(spec_info.data, spec_info.dataSize),
     mapEntryCount |-> Size(spec_info, "mapEntries"),
     pMapEntries |->
         IfMember(spec_info, "mapEntries", parse_map_entries(spec_info.mapEntries), <<>>)]

parse_vertex_attributes(attributes) ==
    [i \in DOMAIN attributes |->
        [location |-> attributes[i].location, binding |-> attributes[i].binding,
         offset |-> attributes[i].offset, format |-> attributes[i].format]]

parse_vertex_bindings(bindings) ==
    [i \in DOMAIN bindings |->
        [binding |-> bindings[i].binding, inputRate |-> bindings[i].inputRate,
         stride |-> bindings[i].stride]]

parse_vertex_input_state(vi) ==
    [pNext |-> NULL, flags |-> vi.flags,
     vertexAttributeDescriptionCount |-> Size(vi, "attributes"),
     pVertexAttributeDescriptions |->
         IfMember(vi, "attributes", parse_vertex_attributes(vi.attributes), <<>>),
     vertexBindingDescriptionCount |-> Size(vi, "bindings"),
     pVertexBindingDescriptions |->
         IfMember(vi, "bindings", parse_vertex_bindings(vi.bindings), <<>>)]

parse_stencil(obj) ==
    [compareOp |-> obj.compareOp, writeMask |-> obj.writeMask,
     reference |-> obj.reference, compareMask |-> obj.compareMask,
     passOp |-> obj.passOp, failOp |-> obj.failOp, depthFailOp |-> obj.depthFailOp]

parse_depth_stencil_state(ds) ==
    [pNext |-> NULL, flags |-> ds.flags,
     depthBoundsTestEnable |-> ds.depthBoundsTestEnable,
     depthCompareOp |-> ds.depthCompareOp,
     depthTestEnable |-> ds.depthTestEnable,
     depthWriteEnable |-> ds.depthWriteEnable,
     minDepthBounds |-> GetFloat(ds.minDepthBounds),
     maxDepthBounds |-> GetFloat(ds.maxDepthBounds),
     stencilTestEnable |-> ds.stencilTestEnable,
     front |-> parse_stencil(ds.front),
     back |-> parse_stencil(ds.back)]

parse_rasterization_state(rs) ==
    [pNext |-> NULL, flags |-> rs.flags,
     cullMode |-> rs.cullMode,
     depthBiasClamp |-> GetFloat(rs.depthBiasClamp),
     depthBiasConstantFactor |-> GetFloat(rs.depthBiasConstantFactor),
     depthBiasSlopeFactor |-> GetFloat(rs.depthBiasSlopeFactor),
     lineWidth |-> GetFloat(rs.lineWidth),
     rasterizerDiscardEnable |-> rs.rasterizerDiscardEnable,
     depthBiasEnable |-> rs.depthBiasEnable,
     depthClampEnable |-> rs.depthClampEnable,
     polygonMode |-> rs.polygonMode,
     frontFace |-> rs.frontFace]

parse_tessellation_state(tess) ==
    [pNext |-> NULL, flags |-> tess.flags, patchControlPoints |-> tess.patchControlPoints]

parse_input_assembly_state(ia) ==
    [pNext |-> NULL, flags |-> ia.flags,
     primitiveRestartEnable |-> ia.primitiveRestartEnable,
     topology |-> ia.topology]

parse_blend_attachments(attachments) ==
    [i \in DOMAIN attachments |->
        LET obj == attachments[i]
        IN  [blendEnable |-> obj.blendEnable,
             colorWriteMask |-> obj.colorWriteMask,
             alphaBlendOp |-> obj.alphaBlendOp,
             colorBlendOp |-> obj.colorBlendOp,
             srcColorBlendFactor |-> obj.srcColorBlendFactor,
             dstColorBlendFactor |-> obj.dstColorBlendFactor,
             srcAlphaBlendFactor |-> obj.srcAlphaBlendFactor,
             dstAlphaBlendFactor |-> obj.dstAlphaBlendFactor]]

parse_color_blend_state(blend) ==
    [pNext |-> NULL, flags |-> blend.flags,
     logicOp |-> blend.logicOp,
     logicOpEnable |-> blend.logicOpEnable,
     blendConstants |-> [i \in 1..4 |-> GetFloat(blend.blendConstants[i])],
     attachmentCount |-> Size(blend, "attachments"),
     pAttachments |->
         IfMember(blend, "attachments", parse_blend_attachments(blend.attachments), <<>>)]

parse_multisample_state(ms) ==
    [pNext |-> NULL, flags |-> ms.flags,
     alphaToCoverageEnable |-> ms.alphaToCoverageEnable,
     alphaToOneEnable |-> ms.alphaToOneEnable,
     minSampleShading |-> GetFloat(ms.minSampleShading),
     rasterizationSamples |-> ms.rasterizationSamples,
     sampleShadingEnable |-> ms.sampleShadingEnable,
     pSampleMask |-> IfMember(ms, "sampleMask", <<parse_uints(ms.sampleMask)>>, NULL)]

parse_dynamic_state(dyn) ==
    [pNext |-> NULL, flags |-> dyn.flags,
     dynamicStateCount |-> Size(dyn, "dynamicState"),
     pDynamicStates |-> IfMember(dyn, "dynamicState", parse_uints(dyn.dynamicState), <<>>)]

parse_viewports(viewports) ==
    [i \in DOMAIN viewports |->
        [x |-> GetFloat(viewports[i].x), y |-> GetFloat(viewports[i].y),
         width |-> GetFloat(viewports[i].width), height |-> GetFloat(viewports[i].height),
         minDepth |-> GetFloat(viewports[i].minDepth),
         maxDepth |-> GetFloat(viewports[i].maxDepth)]]

parse_scissors(scissors) ==
    [i \in DOMAIN scissors |->
        [offset |-> [x |-> scissors[i].x, y |-> scissors[i].y],
         extent |-> [width |-> scissors[i].width, height |-> scissors[i].height]]]

parse_viewport_state(vp) ==
    [pNext |-> NULL, flags |-> vp.flags,
     scissorCount |-> vp.scissorCount,
     pScissors |-> IfMember(vp, "scissors", <<parse_scissors(vp.scissors)>>, NULL),
     viewportCount |-> vp.viewportCount,
     pViewports |-> IfMember(vp, "viewports", <<parse_viewports(vp.viewports)>>, NULL)]

(***************************************************************************)
(* The replayer during a parse: st.replayer holds the replayed_<kind> maps *)
(* of StateReplayer::Impl, st.events the calls made so far on the          *)
(* StateCreatorInterface and the ResolverInterface, st.status whether the  *)
(* parse goes on, has thrown or has aborted the process.  env is what the  *)
(* host and the build provide: the resolver and the files it reads, whether*)
(* the build keeps assertions, the content of uninitialised memory, and    *)
(* which of the enqueue_create calls the creator refuses, if any.  The     *)
(* creator makes each object when it is enqueued and writes its handle at  *)
(* once; when it refuses it writes none.                                   *)
(***************************************************************************)
\* The map a parse_<kind>s loop hands a slot of to enqueue_create_<kind>.
replayed(sType) ==
    CASE sType = VK_STRUCTURE_TYPE_SAMPLER_CREATE_INFO -> "replayed_samplers"
      [] sType = VK_STRUCTURE_TYPE_DESCRIPTOR_SET_LAYOUT_CREATE_INFO ->
             "replayed_descriptor_set_layouts"
      [] sType = VK_STRUCTURE_TYPE_PIPELINE_LAYOUT_CREATE_INFO -> "replayed_pipeline_layouts"
      [] sType = VK_STRUCTURE_TYPE_SHADER_MODULE_CREATE_INFO -> "replayed_shader_modules"
      [] sType = VK_STRUCTURE_TYPE_RENDER_PASS_CREATE_INFO -> "replayed_render_passes"
      [] sType = VK_STRUCTURE_TYPE_COMPUTE_PIPELINE_CREATE_INFO -> "replayed_compute_pipelines"
      [] sType = VK_STRUCTURE_TYPE_GRAPHICS_PIPELINE_CREATE_INFO ->
             "replayed_graphics_pipelines"

\* The map whose count(hash) the loop tests before it parses a member: the
\* loop of parse_render_passes tests replayed_samplers.
counted(sType) ==
    IF sType = VK_STRUCTURE_TYPE_RENDER_PASS_CREATE_INFO THEN "replayed_samplers"
    ELSE replayed(sType)

\* The element of infos the loop fills for its i-th member: the loop of
\* parse_samplers does not advance index.
slot_of(sType, i) == IF sType = VK_STRUCTURE_TYPE_SAMPLER_CREATE_INFO THEN 0 ELSE i - 1

\* The entry of parse, kept with the calls for the properties: the version
\* member of the document, if it has one.
Entered(st, doc) ==
    [st EXCEPT !.events = Append(@, [op |-> "parse",
                                     version |-> IF HasMember(doc, "version")
                                                 THEN <<doc.version>> ELSE NULL])]

\* A variant of Thrown that goes on: C14 fails with it.
Thrown_ignored(st) == st

\* FOSSILIZE_THROW: nothing in the replayer catches the exception.
Thrown(st) == [st EXCEPT !.status = "throw"]
Aborted(st) == [st EXCEPT !.status = "abort"]

Enqueued(events) == SelectSeq(events, LAMBDA e : e.op = "enqueue_create")

\* iface.enqueue_create_<kind>(hash, &info, &replayed_<kind>[hash]); the
\* event keeps, for the properties, the hashes the member names in its
\* reference fields.
\* replayed_<kind>[hash] inserts a null handle for the creator to overwrite;
\* the call that returns false is followed by FOSSILIZE_THROW.
enqueue_create(st, sType, hash, info, slot, refs, env) ==
    LET result == env.refused # Len(Enqueued(st.events)) + 1
        handle == IF result THEN Handle(101 + Len(Enqueued(st.events))) ELSE VK_NULL_HANDLE
        called == [st EXCEPT
            !.events = Append(@, [op |-> "enqueue_create", sType |-> sType, hash |-> hash,
                                  create_info |-> info, slot |-> slot, handle |-> handle,
                                  refs |-> refs, result |-> result]),
            !.replayer = [@ EXCEPT ![replayed(sType)] = Assign(@, hash, handle)]]
    IN  IF result THEN called ELSE Thrown(called)

\* A variant of wait_enqueue that makes no call: C24 fails with it.
wait_enqueue_skipped(st) == st

\* iface.wait_enqueue()
wait_enqueue(st) == [st EXCEPT !.events = Append(@, [op |-> "wait_enqueue"])]

set_num(st, sType) ==
    [st EXCEPT !.events = Append(@, [op |-> "set_num", sType |-> sType, count |-> 0])]

\* A document as a recorder of the next format version writes it.
OtherVersion(doc) == [version |-> FOSSILIZE_FORMAT_VERSION + 1] @@ doc

\* The document has a member for the hash in one of its sections.
Provides(doc, hash) ==
    \E section \in DOMAIN doc \ {"version"} :
       \E m \in DOMAIN doc[section] : string_to_uint64(doc[section][m].name) = hash

\* resolver.resolve(hash): no bytes, or the file a recorder wrote for hash,
\* this recorder or one of another format version; or, of a resolver that
\* keeps one document for all its objects, that document when it has the
\* object.
resolve(env, hash) ==
    IF env.resolver = "files" /\ Filename(hash) \in DOMAIN env.files
    THEN <<IF env.other_version = "files" THEN OtherVersion(env.files[Filename(hash)])
           ELSE env.files[Filename(hash)]>>
    ELSE IF env.resolver = "document" /\ Provides(env.document, hash)
    THEN <<env.document>>
    ELSE NULL

\* GetUint() of the basePipelineIndex member, stored in an int32_t: of a
\* negative number the assertion of GetUint fails, and the build without
\* assertions reads the low 32 bits.  Every other member read with GetUint
\* is written from an unsigned field.
GetUint_aborts(value, env) == env.asserts /\ value < 0

Resolving(st, hash) == [st EXCEPT !.events = Append(@, [op |-> "resolve", hash |-> hash])]

RECURSIVE parse(_, _, _)
RECURSIVE parse_members(_, _, _, _, _)
RECURSIVE parse_stages(_, _, _, _)
RECURSIVE referenced(_, _, _, _)

\* The find of a referenced pipeline or module in its map and, when the map
\* lacks it, the resolve, the parse of the resolved document and the second
\* find.
referenced(st, table, hash, env) ==
    IF hash \in DOMAIN st.replayer[table] THEN st
    ELSE Bind(resolve(env, hash), LAMBDA external_state :
            IF external_state = NULL THEN Thrown(Resolving(st, hash))
            ELSE Bind(parse(Resolving(st, hash), external_state[1], env), LAMBDA parsed :
                    IF parsed.status # "ok" THEN parsed
                    ELSE IF hash \notin DOMAIN parsed.replayer[table] THEN Thrown(parsed)
                    ELSE parsed))

\* The stage parse_stages makes of a member, its module found.
parse_stage(obj, module) ==
    [pNext |-> NULL,
     flags |-> obj.flags,
     stage |-> obj.stage,
     pName |-> obj.name,
     pSpecializationInfo |->
         IfMember(obj, "specializationInfo",
                  <<parse_specialization_info(obj.specializationInfo)>>, NULL),
     module |-> module]

\* parse_stages, from its i-th stage on: the state and the stages.
parse_stages(st, stages, i, env) ==
    IF i > Len(stages) THEN [st |-> st, value |-> <<>>]
    ELSE Bind(string_to_uint64(stages[i].module), LAMBDA module :
         Bind(IF module # VK_NULL_HANDLE
              THEN referenced(st, "replayed_shader_modules", module, env)
              ELSE st, LAMBDA found :
            IF found.status # "ok" THEN [st |-> found, value |-> <<>>]
            ELSE Bind(parse_stages(found, stages, i + 1, env), LAMBDA rest :
                    [st |-> rest.st,
                     value |->
                        <<parse_stage(stages[i],
                                      IF module # VK_NULL_HANDLE
                                      THEN found.replayer.replayed_shader_modules[module]
                                      ELSE VK_NULL_HANDLE)>> \o rest.value])))

\* The compute pipeline of a member, its references found.  The flags of
\* the stage are not read.
compute_pipeline_of(obj, basePipelineHandle, layout, module) ==
    [sType |-> VK_STRUCTURE_TYPE_COMPUTE_PIPELINE_CREATE_INFO, pNext |-> NULL,
     flags |-> obj.flags,
     basePipelineIndex |-> S32(U32(obj.basePipelineIndex)),
     basePipelineHandle |-> basePipelineHandle,
     layout |-> layout,
     stage |->
        [pNext |-> NULL, flags |-> 0,
         stage |-> obj.stage.stage,
         module |-> module,
         pName |-> obj.stage.name,
         pSpecializationInfo |->
             IfMember(obj.stage, "specializationInfo",
                      <<parse_specialization_info(obj.stage.specializationInfo)>>, NULL)]]

\* The value of a map at a hash, the null handle for the zero hash.
At(table, hash) == IF hash # VK_NULL_HANDLE THEN table[hash] ELSE VK_NULL_HANDLE

\* The body of the loop of parse_compute_pipelines, up to the enqueue: the
\* state and the descriptor.
parse_compute_pipeline(st, obj, env) ==
    IF GetUint_aborts(obj.basePipelineIndex, env) THEN [st |-> Aborted(st), value |-> NULL]
    ELSE
    Bind(string_to_uint64(obj.basePipelineHandle), LAMBDA pipeline :
    Bind(IF pipeline # VK_NULL_HANDLE
         THEN referenced(wait_enqueue(st), "replayed_compute_pipelines", pipeline, env)
         ELSE st, LAMBDA base :
       IF base.status # "ok" THEN [st |-> base, value |-> NULL]
       ELSE
       Bind(string_to_uint64(obj.layout), LAMBDA layout :
       Bind([base EXCEPT !.replayer.replayed_pipeline_layouts =
                             Subscripted(@, {layout} \ {VK_NULL_HANDLE})], LAMBDA laid :
       Bind(string_to_uint64(obj.stage.module), LAMBDA module :
       Bind(IF module # VK_NULL_HANDLE
            THEN referenced(laid, "replayed_shader_modules", module, env)
            ELSE laid, LAMBDA found :
          IF found.status # "ok" THEN [st |-> found, value |-> NULL]
          ELSE [st |-> found,
                value |-> compute_pipeline_of(
                              obj,
                              At(base.replayer.replayed_compute_pipelines, pipeline),
                              At(laid.replayer.replayed_pipeline_layouts, layout),
                              At(found.replayer.replayed_shader_modules, module))]))))))

\* The graphics pipeline of a member, its references found.
graphics_pipeline_of(obj, basePipelineHandle, layout, renderPass, pStages) ==
    [sType |-> VK_STRUCTURE_TYPE_GRAPHICS_PIPELINE_CREATE_INFO, pNext |-> NULL,
     flags |-> obj.flags,
     basePipelineIndex |-> S32(U32(obj.basePipelineIndex)),
     basePipelineHandle |-> basePipelineHandle,
     layout |-> layout,
     renderPass |-> renderPass,
     subpass |-> obj.subpass,
     stageCount |-> Size(obj, "stages"),
     pStages |-> pStages,
     pRasterizationState |->
         IfMember(obj, "rasterizationState",
                  <<parse_rasterization_state(obj.rasterizationState)>>, NULL),
     pTessellationState |->
         IfMember(obj, "tessellationState",
                  <<parse_tessellation_state(obj.tessellationState)>>, NULL),
     pColorBlendState |->
         IfMember(obj, "colorBlendState",
                  <<parse_color_blend_state(obj.colorBlendState)>>, NULL),
     pDepthStencilState |->
         IfMember(obj, "depthStencilState",
                  <<parse_depth_stencil_state(obj.depthStencilState)>>, NULL),
     pDynamicState |->
         IfMember(obj, "dynamicState", <<parse_dynamic_state(obj.dynamicState)>>, NULL),
     pViewportState |->
         IfMember(obj, "viewportState", <<parse_viewport_state(obj.viewportState)>>, NULL),
     pMultisampleState |->
         IfMember(obj, "multisampleState",
                  <<parse_multisample_state(obj.multisampleState)>>, NULL),
     pInputAssemblyState |->
         IfMember(obj, "inputAssemblyState",
                  <<parse_input_assembly_state(obj.inputAssemblyState)>>, NULL),
     pVertexInputState |->
         IfMember(obj, "vertexInputState",
                  <<parse_vertex_input_state(obj.vertexInputState)>>, NULL)]

\* The body of the loop of parse_graphics_pipelines, up to the enqueue.
parse_graphics_pipeline(st, obj, env) ==
    IF GetUint_aborts(obj.basePipelineIndex, env) THEN [st |-> Aborted(st), value |-> NULL]
    ELSE
    Bind(string_to_uint64(obj.basePipelineHandle), LAMBDA pipeline :
    Bind(IF pipeline # VK_NULL_HANDLE
         THEN referenced(wait_enqueue(st), "replayed_graphics_pipelines", pipeline, env)
         ELSE st, LAMBDA base :
       IF base.status # "ok" THEN [st |-> base, value |-> NULL]
       ELSE
       Bind(string_to_uint64(obj.layout), LAMBDA layout :
       Bind(string_to_uint64(obj.renderPass), LAMBDA render_pass :
       Bind([base EXCEPT
               !.replayer.replayed_pipeline_layouts =
                   Subscripted(@, {layout} \ {VK_NULL_HANDLE}),
               !.replayer.replayed_render_passes =
                   Subscripted(@, {render_pass} \ {VK_NULL_HANDLE})], LAMBDA laid :
       Bind(IF HasMember(obj, "stages") THEN parse_stages(laid, obj.stages, 1, env)
            ELSE [st |-> laid, value |-> <<>>], LAMBDA stages :
          IF stages.st.status # "ok" THEN [st |-> stages.st, value |-> NULL]
          ELSE [st |-> stages.st,
                value |-> graphics_pipeline_of(
                              obj,
                              At(base.replayer.replayed_graphics_pipelines, pipeline),
                              At(laid.replayer.replayed_pipeline_layouts, layout),
                              At(laid.replayer.replayed_render_passes, render_pass),
                              stages.value)]))))))

\* The hashes the bindings of a set layout name.
SamplerIndices(obj) ==
    IF ~HasMember(obj, "bindings") THEN {}
    ELSE UNION { IF HasMember(obj.bindings[i], "immutableSamplers")
                 THEN Indices(obj.bindings[i].immutableSamplers) ELSE {} :
                 i \in DOMAIN obj.bindings }

\* The body of the loop of parse_<kind>s, from the member's value to the
\* enqueue: the state, with the entries operator[] has added, and the
\* descriptor.
parse_member(st, sType, obj, env) ==
    CASE sType = VK_STRUCTURE_TYPE_SAMPLER_CREATE_INFO ->
             [st |-> st, value |-> parse_sampler(obj)]
      [] sType = VK_STRUCTURE_TYPE_SHADER_MODULE_CREATE_INFO ->
             [st |-> st, value |-> parse_shader_module(obj)]
      [] sType = VK_STRUCTURE_TYPE_RENDER_PASS_CREATE_INFO ->
             [st |-> st, value |-> parse_render_pass(obj)]
      [] sType = VK_STRUCTURE_TYPE_DESCRIPTOR_SET_LAYOUT_CREATE_INFO ->
             [st |-> [st EXCEPT !.replayer.replayed_samplers =
                                    Subscripted(@, SamplerIndices(obj))],
              value |-> parse_descriptor_set_layout(st.replayer.replayed_samplers, obj,
                                                    env.garbage)]
      [] sType = VK_STRUCTURE_TYPE_PIPELINE_LAYOUT_CREATE_INFO ->
             [st |-> [st EXCEPT !.replayer.replayed_descriptor_set_layouts =
                                    Subscripted(@, IF HasMember(obj, "setLayouts")
                                                   THEN Indices(obj.setLayouts) ELSE {})],
              value |-> parse_pipeline_layout(st.replayer.replayed_descriptor_set_layouts, obj)]
      [] sType = VK_STRUCTURE_TYPE_COMPUTE_PIPELINE_CREATE_INFO ->
             parse_compute_pipeline(st, obj, env)
      [] sType = VK_STRUCTURE_TYPE_GRAPHICS_PIPELINE_CREATE_INFO ->
             parse_graphics_pipeline(st, obj, env)

\* The reference fields of a member and of the descriptor parsed from it,
\* field by field: the map of the kind referred to, the hash the member
\* names and the handle the descriptor holds.
Reference(table, string, handle) ==
    [table |-> table, hash |-> string_to_uint64(string), handle |-> handle]

ReferenceSlots(sType, obj, info) ==
    CASE sType = VK_STRUCTURE_TYPE_DESCRIPTOR_SET_LAYOUT_CREATE_INFO ->
             Flatten([i \in 1..info.bindingCount |->
                 IF HasMember(obj.bindings[i], "immutableSamplers")
                    /\ IsSamplerType(info.pBindings[i].descriptorType)
                 THEN [j \in DOMAIN obj.bindings[i].immutableSamplers |->
                          Reference("replayed_samplers", obj.bindings[i].immutableSamplers[j],
                                    info.pBindings[i].pImmutableSamplers[1][j])]
                 ELSE <<>>])
      [] sType = VK_STRUCTURE_TYPE_PIPELINE_LAYOUT_CREATE_INFO ->
             [i \in 1..info.setLayoutCount |->
                 Reference("replayed_descriptor_set_layouts", obj.setLayouts[i],
                           info.pSetLayouts[i])]
      [] sType = VK_STRUCTURE_TYPE_COMPUTE_PIPELINE_CREATE_INFO ->
             <<Reference("replayed_compute_pipelines", obj.basePipelineHandle,
                         info.basePipelineHandle),
               Reference("replayed_pipeline_layouts", obj.layout, info.layout),
               Reference("replayed_shader_modules", obj.stage.module, info.stage.module)>>
      [] sType = VK_STRUCTURE_TYPE_GRAPHICS_PIPELINE_CREATE_INFO ->
             <<Reference("replayed_graphics_pipelines", obj.basePipelineHandle,
                         info.basePipelineHandle),
               Reference("replayed_pipeline_layouts", obj.layout, info.layout),
               Reference("replayed_render_passes", obj.renderPass, info.renderPass)>>
             \o [i \in 1..info.stageCount |->
                    Reference("replayed_shader_modules", obj.stages[i].module,
                              info.pStages[i].module)]
      [] OTHER -> <<>>

\* The loop of parse_<kind>s from its i-th member on, and the wait_enqueue
\* after it.
parse_members(st, sType, members, i, env) ==
    IF st.status # "ok" THEN st
    ELSE IF i > Len(members) THEN wait_enqueue(st)
    ELSE Bind(string_to_uint64(members[i].name), LAMBDA hash :
            IF hash \in DOMAIN st.replayer[counted(sType)]
            THEN parse_members(st, sType, members, i + 1, env)
            ELSE Bind(parse_member(st, sType, members[i].value, env), LAMBDA member :
                    IF member.st.status # "ok" THEN member.st
                    ELSE Bind(enqueue_create(member.st, sType, hash, member.value,
                                             slot_of(sType, i),
                                             ReferenceSlots(sType, members[i].value,
                                                             member.value), env),
                              LAMBDA enqueued :
                            parse_members(enqueued, sType, members, i + 1, env))))

\* A variant of Sections that takes the render passes before the pipeline
\* layouts: C12 fails with it.
Sections_render_passes_first ==
    <<[name |-> "shaderModules", sType |-> VK_STRUCTURE_TYPE_SHADER_MODULE_CREATE_INFO],
      [name |-> "samplers", sType |-> VK_STRUCTURE_TYPE_SAMPLER_CREATE_INFO],
      [name |-> "setLayouts", sType |-> VK_STRUCTURE_TYPE_DESCRIPTOR_SET_LAYOUT_CREATE_INFO],
      [name |-> "renderPasses", sType |-> VK_STRUCTURE_TYPE_RENDER_PASS_CREATE_INFO],
      [name |-> "pipelineLayouts", sType |-> VK_STRUCTURE_TYPE_PIPELINE_LAYOUT_CREATE_INFO],
      [name |-> "computePipelines", sType |-> VK_STRUCTURE_TYPE_COMPUTE_PIPELINE_CREATE_INFO],
      [name |-> "graphicsPipelines",
       sType |-> VK_STRUCTURE_TYPE_GRAPHICS_PIPELINE_CREATE_INFO]>>

\* The sections of a document in the order parse takes them.
Sections ==
    <<[name |-> "shaderModules", sType |-> VK_STRUCTURE_TYPE_SHADER_MODULE_CREATE_INFO],
      [name |-> "samplers", sType |-> VK_STRUCTURE_TYPE_SAMPLER_CREATE_INFO],
      [name |-> "setLayouts", sType |-> VK_STRUCTURE_TYPE_DESCRIPTOR_SET_LAYOUT_CREATE_INFO],
      [name |-> "pipelineLayouts", sType |-> VK_STRUCTURE_TYPE_PIPELINE_LAYOUT_CREATE_INFO],
      [name |-> "renderPasses", sType |-> VK_STRUCTURE_TYPE_RENDER_PASS_CREATE_INFO],
      [name |-> "computePipelines", sType |-> VK_STRUCTURE_TYPE_COMPUTE_PIPELINE_CREATE_INFO],
      [name |-> "graphicsPipelines",
       sType |-> VK_STRUCTURE_TYPE_GRAPHICS_PIPELINE_CREATE_INFO]>>

\* The tests of the sections in parse, from the k-th on.
RECURSIVE parse_sections(_, _, _, _)
parse_sections(st, doc, k, env) ==
    IF k > Len(Sections) \/ st.status # "ok" THEN st
    ELSE Bind(IF HasMember(doc, Sections[k].name)
              THEN parse_members(st, Sections[k].sType, doc[Sections[k].name], 1, env)
              ELSE set_num(st, Sections[k].sType), LAMBDA next :
            parse_sections(next, doc, k + 1, env))

\* What the steps of a call of parse depend on: the document, the keys of
\* the maps (the handles they hold go into the descriptors and decide
\* nothing) and how many creations are left before the one the creator
\* refuses, if it has one ahead.
Frame(st, doc, env) ==
    [doc |-> doc,
     keys |-> [table \in DOMAIN st.replayer |-> DOMAIN st.replayer[table]],
     ahead |-> IF Len(Enqueued(st.events)) < env.refused
               THEN env.refused - Len(Enqueued(st.events)) ELSE 0]

\* The call of parse that never returns.
Unbounded(st) == [st EXCEPT !.status = "unbounded"]

\* A variant of version_mismatches that accepts every version: C15 fails
\* with it.
version_accepted(doc) == FALSE

\* doc["version"].GetInt() != FOSSILIZE_FORMAT_VERSION
version_mismatches(doc) == doc.version # FOSSILIZE_FORMAT_VERSION

\* StateReplayer::Impl::parse.  The documents are those the serializers
\* wrote, so the JSON is well formed; doc["version"] of a document without
\* the member fails an assertion, and the build without assertions reads a
\* null value, whose integer is not the format version.
\* A call of parse within a call of parse that started from the same
\* document, keys and refusal ahead takes the steps its caller took, this
\* call among them: the recursion has no end, and the call never returns.
parse(st, doc, env) ==
    IF Frame(st, doc, env) \in st.active THEN Unbounded(st)
    ELSE
    Bind([Entered(st, doc) EXCEPT !.active = @ \cup {Frame(st, doc, env)}], LAMBDA entered :
    Bind(IF ~HasMember(doc, "version")
         THEN IF env.asserts THEN Aborted(entered) ELSE Thrown(entered)
         ELSE IF version_mismatches(doc) THEN Thrown(entered)
         ELSE parse_sections(entered, doc, 1, env), LAMBDA left :
       IF left.status = "unbounded" THEN left ELSE [left EXCEPT !.active = st.active]))

(***************************************************************************)
(* Replay.  A host thread records its objects, each when it creates it and *)
(* after the objects it refers to, and lets the worker finish the item;    *)
(* it serializes the recorder, the whole of it or one object; it hands the *)
(* document to a new replayer.                                             *)
(***************************************************************************)
\* record_<kind>(Handle(o), create_info) and record_task on the item.
Host_record(o) ==
    /\ Quiescent /\ ~Ended
    /\ buffer = NULL
    /\ \A p \in ObjectIds : Returned(p) => p < o
    /\ \A h \in References(Objects[o]) :
          h # VK_NULL_HANDLE => \E r \in ObjectIds : Handle(r) = h /\ Returned(r)
    /\ LET copied == copy_ci(Objects[o])
           hash == compute_hash(impl, copied.value[1])
       IN  /\ copied.outcome = "return"
           /\ impl' = IF Throws(hash) THEN impl
                      ELSE record_case(impl, Handle(o), copied.value[1], hash)
           /\ files' = IF Throws(hash) THEN files
                       ELSE record_case_files(impl, files, Handle(o), copied.value[1], hash)
    /\ pushed' = Append(pushed, o)
    /\ popped' = Append(popped, o)
    /\ ordered' = ordered \cup {o}
    /\ UNCHANGED <<record_queue, worker, pc, crashed>>
    /\ UNCHANGED <<subject, buffer, replayer, iface, resolver, status, lifetime, memory>>

\* The stores as a serializer may read them.
Stored == { ViewImpl(memory, impl, reused) : reused \in Reuse(memory) }

\* A serializer returns one of the documents; a read of freed memory may
\* end the process instead.
Serialized(call, hash, documents) ==
    /\ Quiescent
    /\ buffer = NULL
    /\ \E docs \in {documents} :
          /\ \E doc \in docs : buffer' = <<[call |-> call, hash |-> hash, doc |-> doc]>>
          /\ crashed' \in IF Cardinality(docs) > 1 THEN BOOLEAN ELSE {FALSE}
    /\ UNCHANGED <<impl, record_queue, worker, pc, files, pushed, popped, ordered>>
    /\ UNCHANGED <<subject, replayer, iface, resolver, status, lifetime, memory>>

\* serialize(), the entries of each store visited in some order.
Host_serialize ==
    \E order \in [samplers : Orderings(impl.samplers),
                  descriptor_sets : Orderings(impl.descriptor_sets),
                  pipeline_layouts : Orderings(impl.pipeline_layouts),
                  shader_modules : Orderings(impl.shader_modules),
                  render_passes : Orderings(impl.render_passes),
                  compute_pipelines : Orderings(impl.compute_pipelines),
                  graphics_pipelines : Orderings(impl.graphics_pipelines)] :
       Serialized("serialize", VK_NULL_HANDLE, { serialize(state, order) : state \in Stored })

\* A hash that no descriptor has.
UnknownHash == <<77>>

\* The per-object serializers take any hash, stored or not.
Host_serialize_graphics_pipeline ==
    \E hash \in DOMAIN impl.graphics_pipelines \cup {UnknownHash} :
       Serialized("serialize_graphics_pipeline", hash,
                  { serialize_graphics_pipeline(state, hash) : state \in Stored })

Host_serialize_compute_pipeline ==
    \E hash \in DOMAIN impl.compute_pipelines \cup {UnknownHash} :
       Serialized("serialize_compute_pipeline", hash,
                  { serialize_compute_pipeline(state, hash) : state \in Stored })

Host_serialize_shader_module ==
    \E hash \in DOMAIN impl.shader_modules \cup {UnknownHash} :
       Serialized("serialize_shader_module", hash,
                  { serialize_shader_module(state, hash) : state \in Stored })

\* StateReplayer::parse(iface, resolver, buffer, size) on a new replayer.
MaxRefused == 4

Replay(resolvers) ==
    /\ buffer # NULL
    /\ status = "none"
    /\ \E r \in resolvers, asserts \in BOOLEAN,
          garbage \in {VK_NULL_HANDLE, Handle(99)}, refused \in 0..MaxRefused,
          other_version \in {"none", "buffer", "files"} :
          \E st \in {parse([replayer |-> replayer, events |-> iface, status |-> "ok",
                             active |-> {}],
                            IF other_version = "buffer" THEN OtherVersion(buffer[1].doc)
                            ELSE buffer[1].doc,
                            [resolver |-> r, files |-> files, asserts |-> asserts,
                             garbage |-> garbage, refused |-> refused,
                             other_version |-> other_version,
                             document |-> buffer[1].doc])} :
              /\ replayer' = st.replayer
              /\ iface' = st.events
              /\ status' = st.status
              /\ resolver' = r
    /\ UNCHANGED <<impl, record_queue, worker, pc, files, crashed, pushed, popped, ordered>>
    /\ UNCHANGED <<subject, buffer, lifetime, memory>>

\* The resolver returns no bytes or reads the files of the recorder.
Host_parse == Replay({"empty", "files"})

\* The resolver answers with the document the replayer was handed.
Host_parse_document == Replay({"document"})

NextReplay ==
    \/ \E o \in ReplayObjects : Host_record(o)
    \/ Host_serialize
    \/ Host_serialize_graphics_pipeline
    \/ Host_serialize_compute_pipeline
    \/ Host_serialize_shader_module
    \/ Host_parse

SpecReplay == Init /\ [][NextReplay]_vars

(***************************************************************************)
(* Properties of the replay.                                               *)
(***************************************************************************)
Mismatched ==
    \E i \in DOMAIN iface :
       iface[i].op = "parse" /\ iface[i].version # <<FOSSILIZE_FORMAT_VERSION>>

Refused == \E i \in DOMAIN iface : iface[i].op = "enqueue_create" /\ ~iface[i].result

\* The document in the buffer is that of the given call, made for a hash
\* of the store if the call takes a hash.
Returned_by(call) ==
    /\ buffer # NULL
    /\ buffer[1].call = call
    /\ CASE call = "serialize_graphics_pipeline" ->
                buffer[1].hash \in DOMAIN impl.graphics_pipelines
         [] call = "serialize_compute_pipeline" ->
                buffer[1].hash \in DOMAIN impl.compute_pipelines
         [] call = "serialize_shader_module" ->
                buffer[1].hash \in DOMAIN impl.shader_modules
         [] OTHER -> TRUE

\* A parse of the document of the given call has ended, the resolver being
\* r, the documents being of this format version and the creator having
\* accepted every call.
Parsed(call, r) ==
    /\ status # "none"
    /\ Returned_by(call)
    /\ resolver = r
    /\ ~Refused
    /\ ~Mismatched

\* The handle->hash tables of a creator that notes, for each object it is
\* asked to create, the hash it is asked to create it under.
Created(events) ==
    [name \in DOMAIN EmptyImpl |->
        LET made == { e \in Range(Enqueued(events)) : to_index(e.sType) = name }
        IN  [handle \in { e.handle : e \in made } |->
                (CHOOSE e \in made : e.handle = handle).hash]]

\* C4: when the document serialize_graphics_pipeline(h) returns for a stored
\* graphics pipeline h has been parsed by a new replayer with a resolver
\* that returns no bytes, the parse has ended without an error and has
\* called enqueue_create_graphics_pipeline for h.
C4_ClosureSelfContained ==
    Parsed("serialize_graphics_pipeline", "empty") =>
       /\ status = "ok"
       /\ \E i \in DOMAIN iface :
             /\ iface[i].op = "enqueue_create"
             /\ iface[i].sType = VK_STRUCTURE_TYPE_GRAPHICS_PIPELINE_CREATE_INFO
             /\ iface[i].hash = buffer[1].hash

\* C5: in every enqueue_create_<kind> call of a replay, each reference field
\* that names a hash holds the handle an earlier enqueue_create call of the
\* kind referred to produced for that hash.
C5_ReferentsCreatedFirst ==
    \A i \in DOMAIN iface :
       iface[i].op = "enqueue_create" =>
          \A k \in DOMAIN iface[i].refs :
             LET ref == iface[i].refs[k]
             IN  ref.hash # VK_NULL_HANDLE =>
                    \E j \in 1..(i - 1) :
                       /\ iface[j].op = "enqueue_create"
                       /\ replayed(iface[j].sType) = ref.table
                       /\ iface[j].hash = ref.hash
                       /\ iface[j].handle = ref.handle

\* C6: when the document serialize() returns has been parsed by a new
\* replayer, its resolver reading the files of the recorder, the parse has
\* ended without an error and, for every kind and every hash in the store of
\* that kind, enqueue_create_<kind> was called for the hash with a
\* descriptor that hashes to it.
C6_RoundTrip ==
    Parsed("serialize", "files") =>
       /\ status = "ok"
       /\ \A sType \in Kinds : \A hash \in DOMAIN impl[store_of(sType)] :
             \E i \in DOMAIN iface :
                /\ iface[i].op = "enqueue_create"
                /\ iface[i].sType = sType
                /\ iface[i].hash = hash
                /\ compute_hash(Created(SubSeq(iface, 1, i - 1)), iface[i].create_info) = hash

(***************************************************************************)
(* Shutdown.  Nothing in record_<kind> or record_end tests whether the     *)
(* empty work item was pushed before: a host may go on calling after       *)
(* record_end(), and ~StateRecorder pushes an empty item of its own.       *)
(***************************************************************************)
MaxLate == 1

\* The objects of the hosts that shut down: a sampler, a set layout whose
\* hash throws in the worker unless the sampler was processed before, a
\* pipeline layout whose remapping throws in the worker, and a shader module.
ShutdownObjects == {1, 3, 5, 6}

\* A host thread enters record_<kind>(Handle(o), create_info) after
\* record_end() has returned.
record_after_end(t, o) ==
    /\ ~crashed /\ Ended
    /\ lifetime = "alive"
    /\ pc[t].op = "idle"
    /\ ~Returned(o) /\ o \notin InFlight
    /\ Len(pushed) + Cardinality(InFlight) < MaxCalls + MaxLate
    /\ pc' = [pc EXCEPT ![t] = [op |-> "record", obj |-> o, ext |-> FALSE]]
    /\ UNCHANGED <<impl, record_queue, worker, files, crashed, pushed, popped, ordered>>
    /\ UNCHANGED <<subject, buffer, replayer, iface, resolver, status, lifetime, memory>>

\* ~StateRecorder, up to the join: record_end(), whether or not the host
\* called it before.  The host destroys the Recorder when no call on it is
\* in progress.
StateRecorder_destructor ==
    /\ ~crashed
    /\ lifetime = "alive"
    /\ \A u \in Threads : pc[u].op = "idle"
    /\ record_queue' = Append(record_queue, [handle |-> VK_NULL_HANDLE, create_info |-> NULL])
    /\ pushed' = Append(pushed, 0)
    /\ lifetime' = "join"
    /\ UNCHANGED <<impl, worker, pc, files, crashed, popped, ordered>>
    /\ UNCHANGED <<subject, buffer, replayer, iface, resolver, status, memory>>

\* impl->worker_thread.join() returns once record_task has returned.
worker_thread_join ==
    /\ ~crashed
    /\ lifetime = "join"
    /\ worker.pc = "return"
    /\ lifetime' = "destroyed"
    /\ UNCHANGED <<impl, record_queue, worker, pc, files, crashed, pushed, popped, ordered>>
    /\ UNCHANGED <<subject, buffer, replayer, iface, resolver, status, memory>>

NextShutdown ==
    \/ \E t \in Threads, o \in ShutdownObjects :
          \/ record_sampler(t, o, FALSE)
          \/ record_descriptor_set_layout(t, o, FALSE)
          \/ record_pipeline_layout(t, o, FALSE)
          \/ record_shader_module(t, o, FALSE)
          \/ record_after_end(t, o)
    \/ \E t \in Threads : record_push(t)
    \/ \E t \in Threads : record_end(t)
    \/ record_task_pop
    \/ record_task_hash
    \/ record_task_store
    \/ StateRecorder_destructor
    \/ worker_thread_join

\* The worker is a thread of its own and the host threads run: a step of
\* record_task that can be taken is taken, a call that holds record_lock
\* returns, a join whose thread has ended returns.
SpecShutdown ==
    /\ Init
    /\ [][NextShutdown]_vars
    /\ WF_vars(record_task_pop)
    /\ WF_vars(record_task_hash)
    /\ WF_vars(record_task_store)
    /\ WF_vars(worker_thread_join)
    /\ \A t \in Threads : WF_vars(record_push(t))

FirstSentinel == CHOOSE i \in DOMAIN pushed : pushed[i] = 0 /\ \A j \in 1..(i - 1) : pushed[j] # 0

\* The worker has taken from the queue the items pushed up to the first
\* empty item, that item included, in their order, and no other.
Drained == popped = SubSeq(pushed, 1, FirstSentinel)

\* C11: once an empty work item is pushed the worker eventually returns;
\* when it has returned it has taken exactly the items pushed before the
\* first empty item; and the join of the destructor eventually returns,
\* whether or not record_end() was called before the destructor.
C11_ShutdownDrains ==
    /\ [](worker.pc = "return" => Drained)
    /\ (Ended ~> worker.pc = "return")
    /\ (lifetime = "join" ~> lifetime = "destroyed")

\* The Recorder is destroyed after record_end() and a later record call: the
\* queue still holds the late item and the empty item of the destructor.
C11_Witness ==
    /\ lifetime = "destroyed"
    /\ Len(pushed) > FirstSentinel + 1
    /\ pushed[Len(pushed)] = 0
    /\ FirstSentinel > 1
    /\ Drained

(***************************************************************************)
(* Properties of the replay, continued.                                    *)
(***************************************************************************)
\* The place of a kind in the dependency order of the sections.
SectionRank(sType) ==
    CASE sType = VK_STRUCTURE_TYPE_SHADER_MODULE_CREATE_INFO -> 1
      [] sType = VK_STRUCTURE_TYPE_SAMPLER_CREATE_INFO -> 2
      [] sType = VK_STRUCTURE_TYPE_DESCRIPTOR_SET_LAYOUT_CREATE_INFO -> 3
      [] sType = VK_STRUCTURE_TYPE_PIPELINE_LAYOUT_CREATE_INFO -> 4
      [] sType = VK_STRUCTURE_TYPE_RENDER_PASS_CREATE_INFO -> 5
      [] sType = VK_STRUCTURE_TYPE_COMPUTE_PIPELINE_CREATE_INFO -> 6
      [] sType = VK_STRUCTURE_TYPE_GRAPHICS_PIPELINE_CREATE_INFO -> 7

Resolved == \E i \in DOMAIN iface : iface[i].op = "resolve"

\* C12: when a parse has made no resolver call, its enqueue_create calls are
\* in the order of the sections: shader modules, samplers, set layouts,
\* pipeline layouts, render passes, compute pipelines, graphics pipelines.
C12_SectionOrder ==
    (status # "none" /\ ~Resolved) =>
       \A i, j \in DOMAIN Enqueued(iface) :
          i < j => SectionRank(Enqueued(iface)[i].sType) <= SectionRank(Enqueued(iface)[j].sType)

\* A parse without a resolver call that created a sampler, a set layout, a
\* pipeline layout, a render pass and a graphics pipeline.
C12_Witness ==
    /\ status = "ok" /\ ~Resolved
    /\ {2, 3, 4, 5, 7} \subseteq { SectionRank(e.sType) : e \in Range(Enqueued(iface)) }

\* The document in the buffer is that of one compute pipeline, which names a
\* base pipeline; the per-object documents hold neither the base pipeline
\* nor the shader module, and the files of the recorder hold both.
DerivedComputeDocument ==
    /\ Returned_by("serialize_compute_pipeline")
    /\ impl.compute_pipelines[buffer[1].hash].basePipelineHandle # VK_NULL_HANDLE

\* C13: when the document of a compute pipeline whose base pipeline is in
\* another document has been parsed with a resolver that returns that
\* document, the parse has ended without an error, the base pipeline was
\* created before the referring pipeline and the referring pipeline was
\* created with the handle produced for its base.
C13_CrossDocumentBase ==
    (DerivedComputeDocument /\ Parsed("serialize_compute_pipeline", "files")) =>
       /\ status = "ok"
       /\ \E i, j \in DOMAIN iface :
             /\ i < j
             /\ iface[i].op = "enqueue_create" /\ iface[j].op = "enqueue_create"
             /\ iface[i].sType = VK_STRUCTURE_TYPE_COMPUTE_PIPELINE_CREATE_INFO
             /\ iface[j].sType = VK_STRUCTURE_TYPE_COMPUTE_PIPELINE_CREATE_INFO
             /\ iface[j].hash = buffer[1].hash
             /\ iface[i].hash = impl.compute_pipelines[buffer[1].hash].basePipelineHandle
             /\ iface[j].create_info.basePipelineHandle = iface[i].handle

\* C14: when an enqueue_create_<kind> call has returned failure, the parse
\* has ended with a fatal error and no enqueue_create call follows the
\* refused one, in that parse or in a parse that encloses it.
C14_RefusalEndsParse ==
    \A i \in DOMAIN iface :
       (iface[i].op = "enqueue_create" /\ ~iface[i].result) =>
          /\ status = "throw"
          /\ \A j \in DOMAIN iface : j > i => iface[j].op # "enqueue_create"

\* The creator refused a shader module inside the parse of a resolved
\* document, with more members to come in the enclosing documents.
C14_Witness ==
    \E i, k \in DOMAIN iface :
       /\ i < k
       /\ iface[i].op = "resolve"
       /\ iface[k].op = "enqueue_create" /\ ~iface[k].result
       /\ iface[k].sType = VK_STRUCTURE_TYPE_SHADER_MODULE_CREATE_INFO
       /\ status = "throw"

\* C15: when parse was entered with a document whose version member is not
\* the format version, the parse has ended with a fatal error and no
\* set_num_<kind> and no enqueue_create_<kind> call was made after that
\* entry, be it the entry of the host's parse or of the parse of a resolved
\* document.
C15_VersionMismatchRejected ==
    \A i \in DOMAIN iface :
       (/\ iface[i].op = "parse"
        /\ iface[i].version # NULL
        /\ iface[i].version[1] # FOSSILIZE_FORMAT_VERSION) =>
          /\ status = "throw"
          /\ \A j \in DOMAIN iface : j > i => iface[j].op \notin {"set_num", "enqueue_create"}

\* A resolved document of another version, met after the enclosing parse had
\* created objects.
C15_Witness ==
    \E h, i, k \in DOMAIN iface :
       /\ h < i /\ i < k
       /\ iface[h].op = "enqueue_create"
       /\ iface[i].op = "resolve"
       /\ iface[k].op = "parse"
       /\ iface[k].version = <<FOSSILIZE_FORMAT_VERSION + 1>>
       /\ status = "throw"

(***************************************************************************)
(* Properties of the documents.                                            *)
(***************************************************************************)
\* The hashes a document has entries for in one of its sections.
Entries(doc, section) ==
    IF HasMember(doc, section)
    THEN { string_to_uint64(doc[section][i].name) : i \in DOMAIN doc[section] }
    ELSE {}

NonNull(hashes) == { hash \in hashes : hash # VK_NULL_HANDLE }

\* What a stored pipeline depends on, from the references its stored
\* descriptor and the descriptors it names hold: its pipeline layout, the
\* set layouts of that layout, the immutable samplers of their sampler
\* bindings, and its render pass if it has one.
LayoutOf(pipe) == NonNull({pipe.layout})

SetLayoutsOf(state, layouts) ==
    NonNull(UNION { Range(state.pipeline_layouts[l].pSetLayouts) :
                      l \in layouts \cap DOMAIN state.pipeline_layouts })

SamplersOf(state, set_layouts) ==
    NonNull(UNION { UNION { Range(b.pImmutableSamplers[1]) :
                              b \in { c \in Range(state.descriptor_sets[l].pBindings) :
                                        /\ c.pImmutableSamplers # NULL
                                        /\ IsSamplerType(c.descriptorType) } } :
                      l \in set_layouts \cap DOMAIN state.descriptor_sets })

PipelineDocument ==
    \/ Returned_by("serialize_graphics_pipeline")
    \/ Returned_by("serialize_compute_pipeline")

\* C16: the document serialize_graphics_pipeline(h) or
\* serialize_compute_pipeline(h) returns for a stored pipeline h has entries
\* for exactly the pipeline, its pipeline layout, the set layouts of that
\* layout, the immutable samplers of those set layouts and, for a graphics
\* pipeline, its render pass.
C16_PipelineClosure ==
    PipelineDocument =>
       LET doc == buffer[1].doc
           graphics == buffer[1].call = "serialize_graphics_pipeline"
           pipe == IF graphics THEN impl.graphics_pipelines[buffer[1].hash]
                   ELSE impl.compute_pipelines[buffer[1].hash]
       IN  /\ Entries(doc, IF graphics THEN "graphicsPipelines" ELSE "computePipelines")
                 = {buffer[1].hash}
           /\ Entries(doc, IF graphics THEN "computePipelines" ELSE "graphicsPipelines") = {}
           /\ Entries(doc, "pipelineLayouts") = LayoutOf(pipe)
           /\ Entries(doc, "setLayouts") = SetLayoutsOf(impl, LayoutOf(pipe))
           /\ Entries(doc, "samplers") = SamplersOf(impl, SetLayoutsOf(impl, LayoutOf(pipe)))
           /\ Entries(doc, "renderPasses") = IF graphics THEN NonNull({pipe.renderPass}) ELSE {}
           /\ Entries(doc, "shaderModules") = {}

\* C17: every document a serializer returns, whatever hash it was called
\* with, has a version member, which is the format version.
C17_VersionMember ==
    buffer # NULL =>
       /\ HasMember(buffer[1].doc, "version")
       /\ buffer[1].doc.version = FOSSILIZE_FORMAT_VERSION

(***************************************************************************)
(* The caller and its memory.  A caller records its objects, each after    *)
(* the objects it refers to; once a call has returned the caller may       *)
(* overwrite or free the arrays of the descriptor it passed; the worker    *)
(* runs meanwhile, and the recorder is serialized when it has finished.    *)
(***************************************************************************)
\* record_<kind>(Handle(o), create_info), from the call to the return: the
\* copy, the push and the notify under record_lock.
Caller_record(o) ==
    /\ ~crashed /\ ~Ended
    /\ buffer = NULL
    /\ \A p \in ObjectIds : Returned(p) => p < o
    /\ \A h \in References(Objects[o]) : Returned(ObjectOf(h))
    /\ \E copied \in {copy_ci(Objects[o])} :
          /\ copied.outcome = "return"
          /\ record_queue' = Append(record_queue,
                                    [handle |-> Handle(o), create_info |-> copied.value])
    /\ pushed' = Append(pushed, o)
    /\ ordered' = ordered \cup {o}
    /\ UNCHANGED <<impl, worker, pc, files, crashed, popped>>
    /\ UNCHANGED others

\* The caller writes other values into the arrays of the descriptor.
Caller_overwrite(o) ==
    /\ ~crashed
    /\ buffer = NULL
    /\ Returned(o)
    /\ memory[o] = "intact"
    /\ memory' = [memory EXCEPT ![o] = "overwritten"]
    /\ UNCHANGED <<impl, record_queue, worker, pc, files, crashed, pushed, popped, ordered>>
    /\ UNCHANGED <<subject, buffer, replayer, iface, resolver, status, lifetime>>

\* The caller frees the arrays of the descriptor.
Caller_free(o) ==
    /\ ~crashed
    /\ buffer = NULL
    /\ Returned(o)
    /\ memory[o] # "freed"
    /\ memory' = [memory EXCEPT ![o] = "freed"]
    /\ UNCHANGED <<impl, record_queue, worker, pc, files, crashed, pushed, popped, ordered>>
    /\ UNCHANGED <<subject, buffer, replayer, iface, resolver, status, lifetime>>

NextCopy ==
    \/ \E o \in CallerObjects : Caller_record(o)
    \/ \E o \in CallerObjects : Caller_overwrite(o)
    \/ \E o \in CallerObjects : Caller_free(o)
    \/ record_task_pop
    \/ record_task_hash
    \/ record_task_store
    \/ Host_serialize
    \/ Host_serialize_graphics_pipeline

SpecCopy == Init /\ [][NextCopy]_vars

(***************************************************************************)
(* Properties of the store.                                                *)
(***************************************************************************)
\* The hashes the stored descriptors of a state hold in their reference
\* fields, each with the store of the kind it refers to.
StoredReferences(state) ==
    UNION {
      { [store |-> "samplers", hash |-> hash] :
          hash \in SamplersOf(state, DOMAIN state.descriptor_sets) },
      { [store |-> "descriptor_sets", hash |-> hash] :
          hash \in SetLayoutsOf(state, DOMAIN state.pipeline_layouts) },
      UNION { { [store |-> "pipeline_layouts", hash |-> pipe.layout],
                [store |-> "render_passes", hash |-> pipe.renderPass],
                [store |-> "graphics_pipelines", hash |-> pipe.basePipelineHandle] }
              \cup { [store |-> "shader_modules", hash |-> pipe.pStages[i].module] :
                       i \in 1..pipe.stageCount } :
              pipe \in Range(state.graphics_pipelines) },
      UNION { { [store |-> "pipeline_layouts", hash |-> pipe.layout],
                [store |-> "shader_modules", hash |-> pipe.stage.module],
                [store |-> "compute_pipelines", hash |-> pipe.basePipelineHandle] } :
              pipe \in Range(state.compute_pipelines) } }

\* C18: every reference hash of a stored descriptor that is not null is a
\* key of the store of the kind it refers to.
C18_ReferentialIntegrity ==
    \A ref \in StoredReferences(impl) :
        ref.hash # VK_NULL_HANDLE => ref.hash \in DOMAIN impl[ref.store]

(***************************************************************************)
(* Properties of the copy.                                                 *)
(***************************************************************************)
\* C19: the hash the worker computes for a queued copy is the hash of the
\* descriptor as the caller passed it, whatever the caller has done to the
\* arrays of the descriptor since the call returned.
C19_SelfContainedCopy ==
    worker.pc = "index" =>
        worker.hash = compute_hash(impl, Objects[ObjectOf(worker.handle)])

(***************************************************************************)
(* Properties of the references.                                           *)
(***************************************************************************)
\* The values the stored descriptors of a state hold in their reference
\* fields, each with the handle->hash table of the kind it refers to; the
\* immutable samplers are those of every binding that has them.
ReferenceValues(state) ==
    UNION {
      UNION { UNION { { [table |-> "sampler_to_index", value |-> b.pImmutableSamplers[1][j]] :
                          j \in 1..b.descriptorCount } :
                      b \in { c \in Range(layout.pBindings) : c.pImmutableSamplers # NULL } } :
              layout \in Range(state.descriptor_sets) },
      UNION { { [table |-> "descriptor_set_layout_to_index", value |-> layout.pSetLayouts[i]] :
                  i \in 1..layout.setLayoutCount } :
              layout \in Range(state.pipeline_layouts) },
      UNION { { [table |-> "pipeline_layout_to_index", value |-> pipe.layout],
                [table |-> "render_pass_to_index", value |-> pipe.renderPass],
                [table |-> "graphics_pipeline_to_index", value |-> pipe.basePipelineHandle] }
              \cup { [table |-> "shader_module_to_index", value |-> pipe.pStages[i].module] :
                       i \in 1..pipe.stageCount } :
              pipe \in Range(state.graphics_pipelines) },
      UNION { { [table |-> "pipeline_layout_to_index", value |-> pipe.layout],
                [table |-> "shader_module_to_index", value |-> pipe.stage.module],
                [table |-> "compute_pipeline_to_index", value |-> pipe.basePipelineHandle] } :
              pipe \in Range(state.compute_pipelines) } }

\* The values of a section of a document.
SectionValues(doc, section) ==
    IF HasMember(doc, section) THEN { doc[section][i].value : i \in DOMAIN doc[section] }
    ELSE {}

\* The reference strings of a document, read as numbers, each with the
\* table of the kind it refers to.
EmittedReferences(doc) ==
    UNION {
      UNION { UNION { { [table |-> "sampler_to_index", value |-> string_to_uint64(string)] :
                          string \in Range(b.immutableSamplers) } :
                      b \in { c \in Range(layout.bindings) : HasMember(c, "immutableSamplers") } } :
              layout \in SectionValues(doc, "setLayouts") },
      UNION { { [table |-> "descriptor_set_layout_to_index", value |-> string_to_uint64(string)] :
                  string \in Range(layout.setLayouts) } :
              layout \in SectionValues(doc, "pipelineLayouts") },
      UNION { { [table |-> "pipeline_layout_to_index", value |-> string_to_uint64(pipe.layout)],
                [table |-> "render_pass_to_index", value |-> string_to_uint64(pipe.renderPass)],
                [table |-> "graphics_pipeline_to_index",
                 value |-> string_to_uint64(pipe.basePipelineHandle)] }
              \cup { [table |-> "shader_module_to_index",
                      value |-> string_to_uint64(stage.module)] : stage \in Range(pipe.stages) } :
              pipe \in SectionValues(doc, "graphicsPipelines") },
      UNION { { [table |-> "pipeline_layout_to_index", value |-> string_to_uint64(pipe.layout)],
                [table |-> "shader_module_to_index",
                 value |-> string_to_uint64(pipe.stage.module)],
                [table |-> "compute_pipeline_to_index",
                 value |-> string_to_uint64(pipe.basePipelineHandle)] } :
              pipe \in SectionValues(doc, "computePipelines") } }

\* A reference is null or the hash registered for an object of its kind.
IsHash(state, ref) ==
    ref.value = VK_NULL_HANDLE \/ ref.value \in Range(state[ref.table])

\* C20: every reference field of a stored descriptor and every reference
\* string of a serialized document is null or the content hash of a
\* recorded object of the kind referred to, the immutable samplers of a
\* binding of any descriptor type included.
C20_ReferencesAreHashes ==
    /\ \A ref \in ReferenceValues(impl) : IsHash(impl, ref)
    /\ buffer # NULL => \A ref \in EmittedReferences(buffer[1].doc) : IsHash(impl, ref)

(***************************************************************************)
(* Properties of the worker's error handling.                              *)
(***************************************************************************)
\* The worker holds an item whose hash function throws on a handle that is
\* in no table.
HoldsFailing ==
    /\ worker.pc \in {"hash", "index"}
    /\ Throws(compute_hash(impl, worker.create_info[1]))

\* C21: while the worker holds an item whose hash fails on an unregistered
\* handle, no step changes a handle->hash table, a store or a file.
C21_FailedHashLeavesNoTrace ==
    [][HoldsFailing => (impl' = impl /\ files' = files)]_vars

\* The worker is past an item whose hash failed, after one it stored: the
\* handle of the failed item is in no table.
C21_Witness ==
    /\ worker.pc = "wait"
    /\ impl # EmptyImpl
    /\ popped # <<>>
    /\ popped[Len(popped)] # 0
    /\ LET o == popped[Len(popped)]
       IN  /\ References(Objects[o]) # {}
           /\ Handle(o) \notin DOMAIN impl[to_index(Objects[o].sType)]

\* The i-th item pushed is a descriptor pushed before every empty item.
BeforeSentinel(i) == Len(pushed) >= i /\ \A k \in 1..i : pushed[k] # 0

\* The worker has dispatched the i-th item pushed: it has popped it and is
\* waiting for the next item, or has gone further.
Dispatched(i) ==
    /\ Len(popped) >= i
    /\ popped[i] = pushed[i]
    /\ Len(popped) = i => worker.pc \in {"wait", "return"}

\* The case of object o did not reach its end: its handle is in no table,
\* or the hash of its handle is not in the store.
Incomplete(o) ==
    LET sType == Objects[o].sType
    IN  \/ Handle(o) \notin DOMAIN impl[to_index(sType)]
        \/ impl[to_index(sType)][Handle(o)] \notin DOMAIN impl[store_of(sType)]

\* An exception was raised while the worker dispatched the j-th item.
Raised(j) == BeforeSentinel(j) /\ Dispatched(j) /\ Incomplete(pushed[j])

\* C22: an item pushed after an item whose dispatch raised an exception, and
\* before the empty item, is eventually popped and dispatched.
C22_WorkerSurvivesException ==
    \A i \in 2..MaxCalls :
        (BeforeSentinel(i) /\ \E j \in 1..(i - 1) : Raised(j)) ~> Dispatched(i)

\* The worker has stored the third item after exceptions of both sorts in
\* the first two, from the hash and from the remap.
C22_Witness ==
    /\ BeforeSentinel(3) /\ Dispatched(3) /\ ~Incomplete(pushed[3])
    /\ \E j, k \in 1..2 :
          /\ Raised(j) /\ Handle(pushed[j]) \notin DOMAIN impl[to_index(Objects[pushed[j]].sType)]
          /\ Raised(k) /\ Handle(pushed[k]) \in DOMAIN impl[to_index(Objects[pushed[k]].sType)]

(***************************************************************************)
(* Properties of the replayer's barrier.                                   *)
(***************************************************************************)
\* The call the replayer made to the creator right before the i-th event.
PrecedingCall(i) ==
    LET calls == { j \in 1..(i - 1) : iface[j].op # "parse" }
    IN  IF calls = {} THEN NULL
        ELSE <<iface[CHOOSE j \in calls : \A k \in calls : k <= j]>>

\* C23: whenever the replayer resolves a reference its maps lack, the base
\* pipeline or the stage module of a compute or of a graphics pipeline, it
\* calls wait_enqueue() and then resolver.resolve(hash): the call before
\* each resolve is a wait_enqueue.
C23_WaitBeforeResolve ==
    \A i \in DOMAIN iface :
       iface[i].op = "resolve" =>
          /\ PrecedingCall(i) # NULL
          /\ PrecedingCall(i)[1].op = "wait_enqueue"


\* The j-th call is an enqueue_create whose descriptor holds, in one of its
\* reference fields, the handle the creator made in the i-th call.
Uses(i, j) ==
    /\ i < j
    /\ iface[i].op = "enqueue_create" /\ iface[j].op = "enqueue_create"
    /\ iface[i].handle # VK_NULL_HANDLE
    /\ \E k \in DOMAIN iface[j].refs : iface[j].refs[k].handle = iface[i].handle

Waited(i, j) == \E w \in (i + 1)..(j - 1) : iface[w].op = "wait_enqueue"

\* C24: between the enqueue_create call that produces a handle and every
\* later enqueue_create call whose descriptor holds that handle the
\* replayer has called wait_enqueue(), also when the two calls are of one
\* section (a base pipeline) and when the first is of a resolved document.
C24_BarrierBeforeUse ==
    \A i, j \in DOMAIN iface : Uses(i, j) => Waited(i, j)

\* A parse that created a pipeline from a base pipeline of the same section
\* and a pipeline from an object of a document it resolved.
C24_Witness ==
    /\ status = "ok"
    /\ \E i, j \in DOMAIN iface : Uses(i, j) /\ iface[i].sType = iface[j].sType
                                   /\ \A r \in i..j : iface[r].op # "resolve"
    /\ \E r, i, j \in DOMAIN iface :
          /\ iface[r].op = "resolve" /\ r < i /\ Uses(i, j)
          /\ iface[i].hash = iface[r].hash


(***************************************************************************)
(* Properties of the hash, continued.                                      *)
(***************************************************************************)
\* The feed of b is the feed of a with one run of words, which starts at
\* the word flags, replaced by the single word 0.
ReplacedByZero(feed_a, feed_b, flags) ==
    \E i \in DOMAIN feed_a : \E j \in i..Len(feed_a) :
       /\ feed_a[i] = flags
       /\ feed_b = SubSeq(feed_a, 1, i - 1) \o Hasher_u32(0)
                   \o SubSeq(feed_a, j + 1, Len(feed_a))

\* The place of the changed sub-state of the subject among the nine.
Changed == CHOOSE k \in DOMAIN OptionalStates : OptionalStates[k] = subject[1].changed

\* C25: in the hash of a graphics pipeline each of the nine optional
\* sub-states feeds its flags first when it is present and exactly one
\* u32(0) when it is absent: the feed of the pipeline without the sub-state
\* is the feed of the pipeline with it, the words of the sub-state, flags
\* first, replaced by one 0, and is never that feed with the words left out.
C25_AbsentSubStateFeedsZero ==
    Hashed("optional") =>
       ReplacedByZero(subject[1].hash_a[1], subject[1].hash_b[1], FlagsOf(Changed))


\* C26: over the parse calls of one replayer, those it makes on resolved
\* documents included, enqueue_create_<kind> is called at most once for a
\* hash, for every kind: a member whose hash the map of its kind holds is
\* skipped.
C26_CreatedOnce ==
    \A i, j \in DOMAIN iface :
       (/\ i < j
        /\ iface[i].op = "enqueue_create" /\ iface[j].op = "enqueue_create"
        /\ iface[i].sType = iface[j].sType) => iface[i].hash # iface[j].hash


\* C27: a hash is a key of a replayed_<kind> map of the replayer only if
\* enqueue_create_<kind> was called for the hash and returned true: neither
\* a creation the creator refuses nor a reference to an object no document
\* has provided leaves an entry.
C27_EntriesAreCreated ==
    \A sType \in Kinds : \A hash \in DOMAIN replayer[replayed(sType)] :
       \E i \in DOMAIN iface :
          /\ iface[i].op = "enqueue_create"
          /\ iface[i].sType = sType
          /\ iface[i].hash = hash
          /\ iface[i].result


(***************************************************************************)
(* The sections of a document with two samplers.  A host records samplers  *)
(* of two contents and the objects over them, serializes the recorder and  *)
(* hands the document to a new replayer.                                   *)
(***************************************************************************)
SectionObjects == {1, 3, 4, 6, 16}

NextSection ==
    \/ \E o \in SectionObjects : Host_record(o)
    \/ Host_serialize
    \/ Host_parse

SpecSection == Init /\ [][NextSection]_vars

\* The i-th and the j-th call are enqueue_create calls of one section: of
\* one kind, with no wait_enqueue between them.
SameSection(i, j) ==
    /\ i < j
    /\ iface[i].op = "enqueue_create" /\ iface[j].op = "enqueue_create"
    /\ iface[i].sType = iface[j].sType
    /\ ~Waited(i, j)

\* C28: within one section every enqueue_create_<kind> call receives a
\* descriptor struct of its own, which no later member of the section is
\* parsed into before the section's wait_enqueue(): two calls of a section
\* never take the same element of the section's array, for every kind,
\* samplers included.
C28_DescriptorsDistinct ==
    \A i, j \in DOMAIN iface : SameSection(i, j) => iface[i].slot # iface[j].slot


(***************************************************************************)
(* Replay with a resolver of one document.  A host records pipelines and   *)
(* the pipelines derived from them, serializes the recorder and hands the  *)
(* document to a new replayer, whose resolver answers with that document.  *)
(***************************************************************************)
ResolveObjects == {1, 3, 4, 6, 7, 8, 9, 11, 12}

NextResolve ==
    \/ \E o \in ResolveObjects : Host_record(o)
    \/ Host_serialize
    \/ Host_parse_document

SpecResolve == Init /\ [][NextResolve]_vars

\* C29: parse returns, with success or with an error, whenever the base
\* pipeline references of the documents the resolver serves have no cycle,
\* also when the document lists a pipeline before its base pipeline and the
\* resolver answers resolve(base) with that same document.
C29_ParseTerminates == status # "unbounded"


(***************************************************************************)
(* The sub-states of a graphics pipeline.  The hosts record graphics       *)
(* pipelines with and without a vertex input, a colour blend and a         *)
(* tessellation state, none with an extension chain; the worker takes the  *)
(* items.                                                                  *)
(***************************************************************************)
NextSubStates ==
    \/ \E t \in Threads, o \in SubStateObjects : record_graphics_pipeline(t, o, FALSE)
    \/ \E t \in Threads : record_push(t)
    \/ record_task_pop
    \/ record_task_hash

SpecSubStates == Init /\ [][NextSubStates]_vars

\* Thread t leaves record_graphics_pipeline in this step.
Leaves(t) == pc[t].op = "record" /\ pc'[t].op = "idle"

\* C30: record_graphics_pipeline returns, having pushed one copy of the
\* descriptor onto the queue, for every combination of present and absent
\* sub-states without an extension chain, the one with a vertex input state
\* and no colour blend state among them: it neither throws nor ends the
\* process.
C30_EveryCombinationRecorded ==
    [][\A t \in Threads :
          Leaves(t) =>
             /\ ~crashed'
             /\ pushed' = Append(pushed, pc[t].obj)
             /\ record_queue' = Append(record_queue,
                                       [handle |-> Handle(pc[t].obj),
                                        create_info |-> <<Objects[pc[t].obj]>>])]_vars

=============================================================================
